---- MODULE Spec2Model ----
(***************************************************************************)
(* Model of asx::ArgumentParser (src/source/argparse.cpp,                  *)
(* src/include/asx/argparse.hpp): the definition builder, the metalabel    *)
(* resolver, the structural validator, the tokenizing loop of              *)
(* parse_args_no_execute_filename and ParseResult::get.                    *)
(*                                                                         *)
(* Strings are TLA+ strings; pointers to definitions are indexes into      *)
(* argument_definitions_ with 0 for nullptr.                               *)
(***************************************************************************)
EXTENDS Integers, Sequences, FiniteSets, TLC

VARIABLES
    argument_definitions_,       \* the parser's definition store
    name_,                       \* the program name
    pc,                          \* "build" | "loop" | "returned" | "aborted"
    args,                        \* the token list of the parse call in flight
    it,                          \* position of the loop iterator in args (1-based)
    positionArgumentDefinitions, \* validator: ordered positional definitions
    numPositionArgumentsRequired,\* validator: count of required positionals
    argumentDefinitionNames,     \* validator: name -> definition
    helpArgumentDefinition,      \* validator: the help definition (0 = nullptr)
    parsingRawArgument,          \* the capture being filled
    finishedRawArguments,        \* the finished captures
    numParsedPositionalArgs,     \* positional slots already assigned
    result,                      \* the ParseResult returned by the last parse
    failure,                     \* the fatal failure that ended the process
    lookup,                      \* label and outcome of the last ParseResult::get
    checkedName,                 \* the string handed to the option-name check
    nameOutcome,                 \* what the call made with checkedName gave
    assembled,                   \* a ParseResult filled through its two setters
    origins,                     \* which setter appended each record of assembled
    assemblyPc,                  \* "assembling" | "returned" | "aborted"
    assemblyFailure,             \* the check that ended the process in a setter
    view,                        \* the last access made through a ParsedArgument
    entry,                       \* the parse_args call that started the parse in flight
    mtx_,                        \* message_queue: the thread holding the mutex, or "free"
    data_,                       \* message_queue: the queued elements, front first
    calling,                     \* message_queue: the call each thread is inside, or "idle"
    pushedValues,                \* every value a push call has queued, in order
    receivedValues,               \* every value a try_next call has returned, in order
    cleared,                     \* some clear call has emptied the queue
    emptySeen,                   \* the reader's last empty() and what happened since
    nextSeen,                    \* the reader's last try_next()
    exclusive_mtx_,              \* exclusive: the locked_ptr owning mtx_, <<>> if free
    handles,                     \* exclusive: the locked_ptr objects of each thread
    relockThrown,                \* a get() of the thread owning mtx_ left with an exception
    ASX_DEBUG,                   \* logging: the build defines ASX_DEBUG
    file_stream_,                \* logging: the std::ofstream of the LoggingSystem
    logging_level_,              \* logging: the level of the LoggingSystem
    console,                     \* logging: the messages written to std::cout
    fileContents,                \* logging: the messages written to each file
    loggingPc,                   \* logging: "running" | "hung" | "terminated" | "exited"
    setLogFileCall               \* logging: the last set_log_file call

vars == <<argument_definitions_, name_, pc, args, it, positionArgumentDefinitions,
          numPositionArgumentsRequired, argumentDefinitionNames,
          helpArgumentDefinition, parsingRawArgument, finishedRawArguments,
          numParsedPositionalArgs, result, failure, lookup, checkedName, nameOutcome,
          assembled, origins, assemblyPc, assemblyFailure, view, entry,
          mtx_, data_, calling, pushedValues, receivedValues, cleared, emptySeen, nextSeen,
          exclusive_mtx_, handles, relockThrown,
          ASX_DEBUG, file_stream_, logging_level_, console, fileContents, loggingPc,
          setLogFileCall>>

----------------------------------------------------------------------------
(* Bounds of the model *)

\* builder calls (add_argument, add_name) made by the embedding program
MaxBuild == 3
\* tokens in one parse call
MaxArgs == 2
\* finished captures after which the loop is no longer followed
MaxFinished == 3

(* Inputs drawn by the actions *)

ProgramNames == {"prog"}
Labels == {"", "count", "help"}
Names == {"--count", "-c", "-h", "foo", "---"}
Tokens == {"3", "--count", "-h", "--help", "---"}
\* set_nargs(_count, _atLeastOne) calls
NargsCalls == {<<0, FALSE>>, <<1, FALSE>>, <<0 - 1, FALSE>>, <<1, TRUE>>,
               <<0 - 1, TRUE>>, <<256, FALSE>>}
LookupLabels == {"count", "other"}

----------------------------------------------------------------------------
(* Strings *)

\* std::string_view::npos
npos == 2147483647

starts_with(s, c) == Len(s) >= 1 /\ SubSeq(s, 1, 1) = c

\* 0-based position of the first character of s that is not c, or npos
find_first_not_of(s, c) ==
    LET idx == {i \in 1..Len(s) : SubSeq(s, i, i) # c}
    IN  IF idx = {} THEN npos
        ELSE (CHOOSE i \in idx : \A j \in idx : i <= j) - 1

\* static_cast<uint8_t>
uint8(n) == n % 256

----------------------------------------------------------------------------
(* ArgumentDefinition *)

\* the arity a definition may hold before any set_nargs call
InitialArities ==
    { [multi_value_mode |-> "fixed", nvals |-> 0],
      [multi_value_mode |-> "fixed", nvals |-> 1],
      [multi_value_mode |-> "variable", nvals |-> 1],
      [multi_value_mode |-> "one_or_more", nvals |-> 1] }

\* ArgumentDefinition{} with the label set; is_optional and is_positional
\* take their default member initializers
ArgumentDefinition(label, arity) ==
    [label |-> label, names |-> <<>>, metalabel |-> "",
     is_optional |-> FALSE, is_positional |-> FALSE,
     multi_value_mode |-> arity.multi_value_mode, nvals |-> arity.nvals]

\* is_enough_values without the test of the count
is_enough_values_always(def, count) == TRUE

is_enough_values(def, count) ==
    CASE def.multi_value_mode = "fixed" -> count >= def.nvals
      [] def.multi_value_mode = "variable" -> TRUE
      [] def.multi_value_mode = "one_or_more" -> count >= 1
      [] OTHER -> TRUE

----------------------------------------------------------------------------
(* Option-name syntax *)

\* the message check_valid_option_name writes for the rule that failed
InvalidOptionName(testName, pretext, rule) ==
    "Invalid option name \"" \o testName \o "\"," \o pretext \o rule

\* the check without the rule for names of one marker
check_valid_option_name_anyLengthAfterOneMarker(testName, pretext) ==
    LET textStartPos == find_first_not_of(testName, "-") IN
    IF ~starts_with(testName, "-")
    THEN [valid |-> FALSE,
          error |-> InvalidOptionName(testName, pretext, " must start with '-' or '--'")]
    ELSE IF textStartPos = npos
    THEN [valid |-> FALSE,
          error |-> InvalidOptionName(testName, pretext, " must contain text after '-' or '--'")]
    ELSE IF textStartPos > 2
    THEN [valid |-> FALSE,
          error |-> InvalidOptionName(testName, pretext, " initial characters must only be '-' or '--'")]
    ELSE [valid |-> TRUE, error |-> ""]

\* [valid, error]: the return value and the text written to _outErrorMessage
check_valid_option_name(testName, pretext) ==
    LET textStartPos == find_first_not_of(testName, "-") IN
    IF ~starts_with(testName, "-")
    THEN [valid |-> FALSE,
          error |-> InvalidOptionName(testName, pretext, " must start with '-' or '--'")]
    ELSE IF textStartPos = npos
    THEN [valid |-> FALSE,
          error |-> InvalidOptionName(testName, pretext, " must contain text after '-' or '--'")]
    ELSE IF textStartPos > 2
    THEN [valid |-> FALSE,
          error |-> InvalidOptionName(testName, pretext, " initial characters must only be '-' or '--'")]
    ELSE IF textStartPos = 1 /\ Len(testName) > 2
    THEN [valid |-> FALSE,
          error |-> InvalidOptionName(testName, pretext,
                       " options starting with '-' must be followed by only a single character")]
    ELSE [valid |-> TRUE, error |-> ""]

\* assert_valid_option_name: "" when the name is valid, else the text of the
\* fatal failure
assert_valid_option_name(testName, pretext) ==
    check_valid_option_name(testName, pretext).error

----------------------------------------------------------------------------
(* Fatal failures: ASX_FAIL and ASX_CHECK log the message and exit(1) *)

ASX_CHECK_text(cond) == "ASX_CHECK condition failed " \o cond

NoFailure == [operation |-> "", message |-> ""]

\* the process exits inside operation with message logged
Abort(operation, message) ==
    /\ pc' = "aborted"
    /\ failure' = [operation |-> operation, message |-> message]

----------------------------------------------------------------------------
(* Builder: ArgumentDefinitionHandle *)

\* first fatal text among the existing names re-checked by add_name, or ""
RECURSIVE ExistingNamesFailure(_, _)
ExistingNamesFailure(names, k) ==
    IF k > Len(names) THEN ""
    ELSE LET pretext == " existing name \"" \o names[k] \o "\" isn't valid -"
             e == assert_valid_option_name(names[k], pretext)
         IN  IF e # "" THEN e ELSE ExistingNamesFailure(names, k + 1)

\* add_name without the re-check of the names the definition already holds
add_name_withoutExistingNamesCheck(def, name) ==
    LET pushed(d) == [d EXCEPT !.names = Append(@, name)] IN
    IF starts_with(name, "-")
    THEN IF assert_valid_option_name(name, "") # ""
         THEN [fatal |-> assert_valid_option_name(name, ""), def |-> def]
         ELSE IF ~def.is_optional
         THEN [fatal |-> "",
               def |-> pushed([def EXCEPT !.is_optional = TRUE, !.is_positional = FALSE])]
         ELSE [fatal |-> "", def |-> pushed(def)]
    ELSE IF def.is_optional /\ ~def.is_positional
    THEN IF assert_valid_option_name(name, "") # ""
         THEN [fatal |-> assert_valid_option_name(name, ""), def |-> def]
         ELSE [fatal |-> "", def |-> pushed(def)]
    ELSE [fatal |-> "", def |-> pushed(def)]

\* [fatal, def]: the failure text ("" for none) and the definition afterwards
add_name(def, name) ==
    LET pushed(d) == [d EXCEPT !.names = Append(@, name)] IN
    IF starts_with(name, "-")
    THEN IF assert_valid_option_name(name, "") # ""
         THEN [fatal |-> assert_valid_option_name(name, ""), def |-> def]
         ELSE IF ~def.is_optional
         THEN IF ExistingNamesFailure(def.names, 1) # ""
              THEN [fatal |-> ExistingNamesFailure(def.names, 1), def |-> def]
              ELSE [fatal |-> "",
                    def |-> pushed([def EXCEPT !.is_optional = TRUE,
                                               !.is_positional = FALSE])]
         ELSE [fatal |-> "", def |-> pushed(def)]
    ELSE IF def.is_optional /\ ~def.is_positional
    THEN IF assert_valid_option_name(name, "") # ""
         THEN [fatal |-> assert_valid_option_name(name, ""), def |-> def]
         ELSE [fatal |-> "", def |-> pushed(def)]
    ELSE [fatal |-> "", def |-> pushed(def)]

\* [fatal, def]
set_nargs(def, count, atLeastOne) ==
    IF ~(count > 0 - 256 /\ count < 256)
    THEN [fatal |-> ASX_CHECK_text("_count > -256 && _count < 256"), def |-> def]
    ELSE IF atLeastOne
    THEN IF ~(count >= 0)
         THEN [fatal |-> ASX_CHECK_text("_count >= 0"), def |-> def]
         ELSE [fatal |-> "",
               def |-> [def EXCEPT !.multi_value_mode = "one_or_more",
                                   !.nvals = uint8(count)]]
    ELSE IF count >= 0
    THEN [fatal |-> "",
          def |-> [def EXCEPT !.multi_value_mode = "fixed", !.nvals = uint8(count)]]
    ELSE [fatal |-> "",
          def |-> [def EXCEPT !.multi_value_mode = "variable",
                              !.nvals = uint8(0 - count)]]

\* define_default_arguments without the short help name
define_default_arguments_withoutShortName ==
    set_nargs(
        add_name(ArgumentDefinition("help", [multi_value_mode |-> "fixed", nvals |-> 1]),
                 "--help").def,
        0, FALSE).def

\* define_default_arguments: add_argument("help").add_name("-h").add_name("--help").set_nargs(0)
define_default_arguments ==
    set_nargs(
        add_name(
            add_name(ArgumentDefinition("help", [multi_value_mode |-> "fixed", nvals |-> 1]),
                     "-h").def,
            "--help").def,
        0, FALSE).def

----------------------------------------------------------------------------
(* ParseResult *)

\* ParseResult(_shouldExit, _errorOccured, _message): the storage members are
\* default-constructed
ParseResult(shouldExit, errorOccured, message) ==
    [should_exit |-> shouldExit, error |-> errorOccured, message |-> message,
     parsed_values |-> <<>>, parsed_arguments |-> <<>>,
     labelled_argument_positions |-> <<>>, num_positional_args |-> 0]

\* no parse has returned
NoResult == ParseResult(FALSE, FALSE, "")

\* get with a lookup that answers an unknown label with an empty view
get_unknownLabelIsEmptyView(res, label) ==
    IF label \notin DOMAIN res.labelled_argument_positions
    THEN [thrown |-> "", values |-> <<>>]
    ELSE LET info == res.parsed_arguments[res.labelled_argument_positions[label] + 1] IN
         [thrown |-> "",
          values |-> SubSeq(res.parsed_values, info.offset + 1, info.offset + info.count)]

\* ParseResult::get: [thrown, values]; both at() calls throw std::out_of_range
get(res, label) ==
    IF label \notin DOMAIN res.labelled_argument_positions
    THEN [thrown |-> "std::out_of_range", values |-> <<>>]
    ELSE LET position == res.labelled_argument_positions[label] IN
         IF position + 1 \notin DOMAIN res.parsed_arguments
         THEN [thrown |-> "std::out_of_range", values |-> <<>>]
         ELSE LET info == res.parsed_arguments[position + 1] IN
              [thrown |-> "",
               values |-> SubSeq(res.parsed_values, info.offset + 1,
                                 info.offset + info.count)]

\* insert_or_assign(label, index) on the label map
insert_or_assign(positions, label, index) ==
    [l \in DOMAIN positions \cup {label} |-> IF l = label THEN index ELSE positions[l]]

\* AppendRecord taking the number of records for the offset of the new one
AppendRecord_offsetByRecords(res, values) ==
    [res EXCEPT !.parsed_values = @ \o values,
                !.parsed_arguments = Append(@, [offset |-> Len(res.parsed_arguments),
                                                count |-> Len(values)])]

\* the record and the values a setter appends to the storage
AppendRecord(res, values) ==
    [res EXCEPT !.parsed_values = @ \o values,
                !.parsed_arguments = Append(@, [offset |-> Len(res.parsed_values),
                                                count |-> Len(values)])]

\* set_positional_argument that accepts a record after a named one
set_positional_argument_afterNamed(res, values, label) ==
    LET index == Len(res.parsed_arguments)
        appended == AppendRecord(res, values) IN
    IF label # "" /\ label \in DOMAIN res.labelled_argument_positions
    THEN [fatal |-> ASX_CHECK_text("_noCollision"), appended |-> TRUE,
          res |-> [appended EXCEPT !.labelled_argument_positions =
                                       insert_or_assign(@, label, index)]]
    ELSE [fatal |-> "", appended |-> TRUE,
          res |-> [appended EXCEPT
                      !.labelled_argument_positions =
                          IF label = "" THEN @ ELSE insert_or_assign(@, label, index),
                      !.num_positional_args = @ + 1]]

\* ParseResult::set_positional_argument: [fatal, appended, res]
set_positional_argument(res, values, label) ==
    IF res.num_positional_args # Len(res.parsed_arguments)
    THEN [fatal |-> ASX_CHECK_text("_numPositionalArgs == _parsedArgumentStorage.size()"),
          appended |-> FALSE, res |-> res]
    ELSE LET index == Len(res.parsed_arguments)
             appended == AppendRecord(res, values) IN
         IF label # "" /\ label \in DOMAIN res.labelled_argument_positions
         THEN [fatal |-> ASX_CHECK_text("_noCollision"), appended |-> TRUE,
               res |-> [appended EXCEPT !.labelled_argument_positions =
                                            insert_or_assign(@, label, index)]]
         ELSE [fatal |-> "", appended |-> TRUE,
               res |-> [appended EXCEPT
                           !.labelled_argument_positions =
                               IF label = "" THEN @ ELSE insert_or_assign(@, label, index),
                           !.num_positional_args = @ + 1]]

\* ParseResult::set_named_argument: [fatal, appended, res]
set_named_argument(res, values, label) ==
    IF label = ""
    THEN [fatal |-> ASX_CHECK_text("!_label.empty()"), appended |-> FALSE, res |-> res]
    ELSE LET index == Len(res.parsed_arguments)
             appended == AppendRecord(res, values)
             assigned == [appended EXCEPT !.labelled_argument_positions =
                                              insert_or_assign(@, label, index)] IN
         IF label \in DOMAIN res.labelled_argument_positions
         THEN [fatal |-> ASX_CHECK_text("_noCollision"), appended |-> TRUE, res |-> assigned]
         ELSE [fatal |-> "", appended |-> TRUE, res |-> assigned]

(* ParsedArgument: a view over a window of the value storage *)

value_count(values) == Len(values)

has_value(values) == values # <<>>

\* what value() leaves behind; front() of an empty span is undefined behaviour,
\* so a build either stops the process or hands back whatever lies at the
\* window's start
value(values) ==
    IF values = <<>>
    THEN {[outcome |-> "crashed", value |-> ""],
          [outcome |-> "returned", value |-> "<indeterminate>"]}
    ELSE {[outcome |-> "returned", value |-> values[1]]}

----------------------------------------------------------------------------
(* Metalabel resolver *)

\* names joined with '|'
RECURSIVE JoinNames(_, _)
JoinNames(names, k) ==
    IF k > Len(names) THEN ""
    ELSE (IF k = 1 THEN "" ELSE "|") \o names[k] \o JoinNames(names, k + 1)

\* [fatal, defs]: walks the definitions from index k with the running
\* positional counter
RECURSIVE ResolveFrom(_, _, _)
ResolveFrom(defs, k, positionalArgumentCounter) ==
    IF k > Len(defs) THEN [fatal |-> "", defs |-> defs]
    ELSE
      LET d == defs[k]
          next == IF d.is_positional THEN positionalArgumentCounter + 1
                  ELSE positionalArgumentCounter
      IN  IF d.metalabel # "" THEN ResolveFrom(defs, k + 1, next)
          ELSE IF d.names # <<>>
          THEN ResolveFrom([defs EXCEPT ![k].metalabel = JoinNames(d.names, 1)],
                           k + 1, next)
          ELSE IF d.label # ""
          THEN ResolveFrom([defs EXCEPT ![k].metalabel = d.label], k + 1, next)
          ELSE IF ~d.is_positional
          THEN [fatal |-> ASX_CHECK_text("_definition.is_positional"), defs |-> defs]
          ELSE ResolveFrom(
                   [defs EXCEPT ![k].metalabel = "arg" \o ToString(positionalArgumentCounter)],
                   k + 1, next)

\* the resolver without the test for an empty metalabel: the joined names
\* are appended to the text the definition holds
resolve_argument_metalabels_appending(defs) ==
    [fatal |-> "",
     defs |-> [k \in 1..Len(defs) |->
                  [defs[k] EXCEPT !.metalabel = @ \o JoinNames(defs[k].names, 1)]]]

\* the resolver replacing a metalabel it finds set by the label
resolve_argument_metalabels_relabelling(defs) ==
    [fatal |-> "",
     defs |-> [k \in 1..Len(defs) |->
                  [defs[k] EXCEPT !.metalabel =
                      IF @ = "" THEN JoinNames(defs[k].names, 1) ELSE defs[k].label]]]

resolve_argument_metalabels(defs) == ResolveFrom(defs, 1, 0)

----------------------------------------------------------------------------
(* Help text *)

\* the wrapped metalabels with a space after each
RECURSIVE HelpArguments_spaced(_, _)
HelpArguments_spaced(defs, k) ==
    IF k > Len(defs) THEN ""
    ELSE (IF defs[k].is_optional
          THEN "[" \o defs[k].metalabel \o "] "
          ELSE "<" \o defs[k].metalabel \o "> ") \o HelpArguments_spaced(defs, k + 1)

RECURSIVE HelpArguments(_, _)
HelpArguments(defs, k) ==
    IF k > Len(defs) THEN ""
    ELSE (IF defs[k].is_optional
          THEN "[" \o defs[k].metalabel \o "]"
          ELSE "<" \o defs[k].metalabel \o ">") \o HelpArguments(defs, k + 1)

generate_help_text(name, defs) ==
    "Usage:\n\t" \o name \o " " \o HelpArguments(defs, 1)

----------------------------------------------------------------------------
(* Structural validator: the helper data of parse_args_no_execute_filename *)

EmptyHelpers ==
    [fatal |-> "", positional |-> <<>>, required |-> 0, names |-> <<>>,
     help |-> 0, foundOptionalPositional |-> 0]

\* the name map filled by insert_or_assign with its answer ignored
RECURSIVE InsertNames_overwriting(_, _, _, _)
InsertNames_overwriting(h, defs, i, k) ==
    IF k > Len(defs[i].names) THEN h
    ELSE LET name == defs[i].names[k] IN
         InsertNames_overwriting(
             [h EXCEPT !.names = (name :> i) @@ [n \in DOMAIN @ \ {name} |-> @[n]]],
             defs, i, k + 1)

\* inserts the names of definition i from position k on; stops at a collision
RECURSIVE InsertNames(_, _, _, _)
InsertNames(h, defs, i, k) ==
    IF k > Len(defs[i].names) THEN h
    ELSE LET name == defs[i].names[k] IN
         IF name \in DOMAIN h.names
         THEN [h EXCEPT !.fatal = "Multiple arguments with the name \"" \o name \o "\""]
         ELSE InsertNames([h EXCEPT !.names = (name :> i) @@ @], defs, i, k + 1)

RECURSIVE PrepareFrom(_, _, _)
PrepareFrom(h, defs, i) ==
    IF i > Len(defs) \/ h.fatal # "" THEN h
    ELSE
      LET d == defs[i] IN
      IF d.is_positional
      THEN LET h1 == IF ~d.is_optional THEN [h EXCEPT !.required = @ + 1] ELSE h IN
           IF h1.foundOptionalPositional # 0 /\ ~d.is_optional
           THEN [h1 EXCEPT !.fatal =
                    "Positional argument \"" \o d.metalabel
                    \o "\" must be optional as it follows an optional positional argument \""
                    \o defs[h1.foundOptionalPositional].metalabel \o "\""]
           ELSE LET h2 == IF h1.foundOptionalPositional = 0 /\ d.is_optional
                          THEN [h1 EXCEPT !.foundOptionalPositional = i] ELSE h1
                IN  PrepareFrom([h2 EXCEPT !.positional = Append(@, i)], defs, i + 1)
      ELSE IF ~d.is_optional
      THEN [h EXCEPT !.fatal = "Named argument \"" \o d.label \o "\" must be optional"]
      ELSE LET isHelp == d.names[1] = "-h" \/ d.names[1] = "--help" IN
           IF isHelp /\ h.help # 0
           THEN [h EXCEPT !.fatal = ASX_CHECK_text("!_helpArgumentDefinition")]
           ELSE PrepareFrom(
                    InsertNames(IF isHelp THEN [h EXCEPT !.help = i] ELSE h, defs, i, 1),
                    defs, i + 1)

\* [fatal, positional, required, names, help]
PrepareHelpers(defs) == PrepareFrom(EmptyHelpers, defs, 1)

\* the help short-circuit looking at the first token only
HelpRequested_firstTokenOnly(defs, help, tokens) ==
    /\ help # 0
    /\ tokens # <<>>
    /\ \E n \in 1..Len(defs[help].names) : defs[help].names[n] = tokens[1]

\* the help short-circuit: some token is one of the help definition's names
HelpRequested(defs, help, tokens) ==
    /\ help # 0
    /\ \E k \in 1..Len(tokens) : \E n \in 1..Len(defs[help].names) :
           defs[help].names[n] = tokens[k]

----------------------------------------------------------------------------
(* Tokenizing loop of parse_args_no_execute_filename *)

\* RawArgument{}
EmptyRawArgument == [definition |-> 0, name |-> "", values |-> <<>>]

\* RawArgument::clear: the name is kept
clear(raw) == [raw EXCEPT !.definition = 0, !.values = <<>>]

\* the locals of the loop
Locals(parsing, finished, numParsed, iter) ==
    [parsing |-> parsing, finished |-> finished, numParsed |-> numParsed, it |-> iter]

\* outcome of a part of an iteration: the loop goes on with locals L, or the
\* function returns res
GoOn(L) == [returns |-> FALSE, L |-> L, res |-> NoResult]
Return(L, res) == [returns |-> TRUE, L |-> L, res |-> res]

ExpectsValuesText(raw, def) ==
    "Argument \"" \o raw.name \o "\" expects " \o ToString(def.nvals)
    \o " values but only " \o ToString(Len(raw.values)) \o " were provided"

\* it == _args.end()
EndOfArgs(defs, L) ==
    IF L.parsing.definition # 0
    THEN IF is_enough_values(defs[L.parsing.definition], uint8(Len(L.parsing.values)))
         THEN Return([L EXCEPT !.finished = Append(@, L.parsing),
                               !.parsing = clear(@),
                               !.it = @ + 1],
                     ParseResult(FALSE, FALSE, ""))
         ELSE Return(L, ParseResult(TRUE, TRUE,
                        ExpectsValuesText(L.parsing, defs[L.parsing.definition])))
    ELSE Return(L, ParseResult(FALSE, FALSE, ""))

\* StartArgument reporting an unrecognized option without the exit flag
StartArgument_errorWithoutExit(defs, positional, required, names, arg, L) ==
    IF starts_with(arg, "-")
    THEN IF ~check_valid_option_name(arg, "").valid
         THEN Return(L, ParseResult(TRUE, TRUE, check_valid_option_name(arg, "").error))
         ELSE IF arg \notin DOMAIN names
         THEN Return(L, ParseResult(FALSE, TRUE,
                        "Found unrecognized option \"" \o arg \o "\""))
         ELSE GoOn([L EXCEPT !.parsing.definition = names[arg],
                             !.parsing.name = arg])
    ELSE IF L.numParsed >= Len(positional)
         THEN Return(L, ParseResult(TRUE, TRUE,
                        "Got too many positional arguments \"" \o arg
                        \o "\", expected at least " \o ToString(required)))
         ELSE GoOn([L EXCEPT !.numParsed = @ + 1,
                             !.parsing.definition = positional[L.numParsed + 1],
                             !.parsing.name = defs[positional[L.numParsed + 1]].metalabel])

\* StartArgument looking the token up without the test of its syntax
StartArgument_withoutSyntaxCheck(defs, positional, required, names, arg, L) ==
    IF starts_with(arg, "-")
    THEN IF arg \notin DOMAIN names
         THEN Return(L, ParseResult(TRUE, TRUE,
                        "Found unrecognized option \"" \o arg \o "\""))
         ELSE GoOn([L EXCEPT !.parsing.definition = names[arg],
                             !.parsing.name = arg])
    ELSE IF L.numParsed >= Len(positional)
         THEN Return(L, ParseResult(TRUE, TRUE,
                        "Got too many positional arguments \"" \o arg
                        \o "\", expected at least " \o ToString(required)))
         ELSE GoOn([L EXCEPT !.numParsed = @ + 1,
                             !.parsing.definition = positional[L.numParsed + 1],
                             !.parsing.name = defs[positional[L.numParsed + 1]].metalabel])

\* no definition is active: start the option or the positional slot arg opens
StartArgument(defs, positional, required, names, arg, L) ==
    IF starts_with(arg, "-")
    THEN IF ~check_valid_option_name(arg, "").valid
         THEN Return(L, ParseResult(TRUE, TRUE, check_valid_option_name(arg, "").error))
         ELSE IF arg \notin DOMAIN names
         THEN Return(L, ParseResult(TRUE, TRUE,
                        "Found unrecognized option \"" \o arg \o "\""))
         ELSE GoOn([L EXCEPT !.parsing.definition = names[arg],
                             !.parsing.name = arg])
    ELSE IF L.numParsed >= Len(positional)
         THEN Return(L, ParseResult(TRUE, TRUE,
                        "Got too many positional arguments \"" \o arg
                        \o "\", expected at least " \o ToString(required)))
         ELSE GoOn([L EXCEPT !.numParsed = @ + 1,
                             !.parsing.definition = positional[L.numParsed + 1],
                             !.parsing.name = defs[positional[L.numParsed + 1]].metalabel])

\* a definition is active: close it, or take arg as one of its values
WriteValue(defs, arg, L) ==
    LET def == defs[L.parsing.definition]
        closed == [L EXCEPT !.finished = Append(@, L.parsing), !.parsing = clear(@)]
    IN  IF def.multi_value_mode = "fixed" /\ def.nvals = Len(L.parsing.values)
        THEN GoOn(closed)
        ELSE IF check_valid_option_name(arg, "").valid
        THEN IF def.multi_value_mode = "fixed"
             THEN Return(L, ParseResult(TRUE, TRUE, ExpectsValuesText(L.parsing, def)))
             ELSE IF def.multi_value_mode = "one_or_more" /\ L.parsing.values = <<>>
             THEN Return(L, ParseResult(TRUE, TRUE,
                            "Argument \"" \o L.parsing.name
                            \o "\" expects at least one value but none were provided"))
             ELSE GoOn(closed)
        ELSE GoOn([L EXCEPT !.parsing.values = Append(@, arg)])

\* Advance moving the iterator after every iteration
Advance_always(L) == [L EXCEPT !.it = @ + 1]

\* the iterator moves on only while a definition is active
Advance(L) == IF L.parsing.definition # 0 THEN [L EXCEPT !.it = @ + 1] ELSE L

\* one iteration of the loop
Iteration(defs, positional, required, names, tokens, L) ==
    IF L.it = Len(tokens) + 1
    THEN EndOfArgs(defs, L)
    ELSE LET arg == tokens[L.it]
             started == IF L.parsing.definition = 0
                        THEN StartArgument(defs, positional, required, names, arg, L)
                        ELSE GoOn(L)
         IN  IF started.returns THEN started
             ELSE LET written == IF started.L.parsing.definition # 0
                                 THEN WriteValue(defs, arg, started.L)
                                 ELSE GoOn(started.L)
                  IN  IF written.returns THEN written
                      ELSE GoOn(Advance(written.L))

----------------------------------------------------------------------------
(* State machine *)

NoLookup == [called |-> FALSE, label |-> "", thrown |-> "", values |-> <<>>]

\* token lists of a parse call
TokenLists == UNION {[1..n -> Tokens] : n \in 0..MaxArgs}

\* builder calls that made the store: add_argument and add_name calls
RECURSIVE BuildCalls(_, _)
BuildCalls(defs, k) ==
    IF k > Len(defs) THEN 0
    ELSE 1 + Len(defs[k].names) + BuildCalls(defs, k + 1)

\* the definitions a handle held by the embedding program can refer to
UserDefinitions == 2..Len(argument_definitions_)

\* no string was handed to the option-name check
NoOutcome == [called |-> "", valid |-> FALSE, error |-> "", names |-> <<>>]

nameVars == <<checkedName, nameOutcome>>

NoNameCall == checkedName = "" /\ nameOutcome = NoOutcome

assemblyVars == <<assembled, origins, assemblyPc, assemblyFailure, view>>

\* no access was made through a ParsedArgument
NoView == [called |-> "", label |-> "", window |-> <<>>, outcome |-> "", value |-> ""]

\* ParseResult(): an empty result about to be filled
NoAssembly ==
    /\ assembled = NoResult
    /\ origins = <<>>
    /\ assemblyPc = "assembling"
    /\ assemblyFailure = ""
    /\ view = NoView

\* no parse was started through parse_args
NoEntry == [called |-> FALSE, given |-> <<>>, errc |-> FALSE, path |-> "", outcome |-> ""]

queueVars == <<mtx_, data_, calling, pushedValues, receivedValues, cleared, emptySeen, nextSeen>>

QueueThreads == {"writer", "reader"}

\* the reader has not called empty()
NoEmptySeen == [answer |-> "none", pushes |-> 0, cleared |-> FALSE]

\* the reader has not called try_next()
NoNextSeen == [called |-> FALSE, value |-> <<>>, sizeAtLock |-> 0, after |-> NoEmptySeen]

\* message_queue(): an empty queue that no thread is using
NoQueue ==
    /\ mtx_ = "free"
    /\ data_ = <<>>
    /\ calling = [t \in QueueThreads |-> "idle"]
    /\ pushedValues = <<>>
    /\ receivedValues = <<>>
    /\ cleared = FALSE
    /\ emptySeen = NoEmptySeen
    /\ nextSeen = NoNextSeen

exclusiveVars == <<exclusive_mtx_, handles, relockThrown>>

\* locked_ptr objects a thread keeps at a time
MaxHandles == 2

ExclusiveThreads == {"t1", "t2"}

HandleIds == ExclusiveThreads \X (1..MaxHandles)

\* the mutex of the exclusive object is not locked
Unowned == <<>>

\* a locked_ptr that is not constructed
NoHandle == [state |-> "none", owns |-> FALSE, ptr_ |-> "nullptr", releases |-> 0]

\* exclusive(): the mutex is free and no locked_ptr exists
NoExclusive ==
    /\ exclusive_mtx_ = Unowned
    /\ handles = [h \in HandleIds |-> NoHandle]
    /\ relockThrown = FALSE

loggingVars == <<ASX_DEBUG, file_stream_, logging_level_, console, fileContents,
                 loggingPc, setLogFileCall>>

LogPaths == {"a.log", "b.log"}

\* enum class LogLevel
LogLevel == [none |-> 0, fatal |-> 1, error |-> 2, warn |-> 3, info |-> 4, all |-> 5]

\* a default-constructed std::ofstream: no file, no error flag
ClosedStream == [path |-> "", failbit |-> FALSE]

\* set_log_file has not been called
NoSetLogFile == [called |-> FALSE, path |-> "", opened |-> FALSE, logged |-> FALSE,
                 before |-> ClosedStream, after |-> ClosedStream]

\* LoggingSystem(): the logging system before its first use
NoLogging ==
    /\ file_stream_ = ClosedStream
    /\ logging_level_ = LogLevel.all
    /\ console = <<>>
    /\ fileContents = [path \in LogPaths |-> <<>>]
    /\ loggingPc = "running"
    /\ setLogFileCall = NoSetLogFile

\* an object that the program has not constructed has no state
Absent == <<>>

AssemblyAbsent ==
    /\ assembled = Absent
    /\ origins = Absent
    /\ assemblyPc = Absent
    /\ assemblyFailure = Absent
    /\ view = Absent

QueueAbsent ==
    /\ mtx_ = Absent
    /\ data_ = Absent
    /\ calling = Absent
    /\ pushedValues = Absent
    /\ receivedValues = Absent
    /\ cleared = Absent
    /\ emptySeen = Absent
    /\ nextSeen = Absent

ExclusiveAbsent ==
    /\ exclusive_mtx_ = Absent
    /\ handles = Absent
    /\ relockThrown = Absent

LoggingAbsent ==
    /\ ASX_DEBUG = Absent
    /\ file_stream_ = Absent
    /\ logging_level_ = Absent
    /\ console = Absent
    /\ fileContents = Absent
    /\ loggingPc = Absent
    /\ setLogFileCall = Absent

\* the objects that are neither the parser nor the option-name check
components == <<assemblyVars, queueVars, exclusiveVars, loggingVars>>

\* the state outside the parser object
outsideParser == <<nameVars, components, entry>>

\* the components outside the parser and the option-name check are not in use
ComponentsIdle == AssemblyAbsent /\ QueueAbsent /\ ExclusiveAbsent /\ LoggingAbsent

loopVars == <<args, it, positionArgumentDefinitions, numPositionArgumentsRequired,
              argumentDefinitionNames, helpArgumentDefinition, parsingRawArgument,
              finishedRawArguments, numParsedPositionalArgs>>

NoParse ==
    /\ args = <<>>
    /\ it = 1
    /\ positionArgumentDefinitions = <<>>
    /\ numPositionArgumentsRequired = 0
    /\ argumentDefinitionNames = <<>>
    /\ helpArgumentDefinition = 0
    /\ parsingRawArgument = EmptyRawArgument
    /\ finishedRawArguments = <<>>
    /\ numParsedPositionalArgs = 0

\* ArgumentParser(_name): the constructor defines the default arguments
Constructed ==
    /\ name_ \in ProgramNames
    /\ argument_definitions_ = <<define_default_arguments>>
    /\ pc = "build"
    /\ NoParse
    /\ result = NoResult
    /\ failure = NoFailure
    /\ lookup = NoLookup

Init ==
    /\ Constructed
    /\ NoNameCall
    /\ ComponentsIdle
    /\ entry = NoEntry

\* add_argument(_label)
AddArgument(label, arity) ==
    /\ pc = "build"
    /\ BuildCalls(argument_definitions_, 2) < MaxBuild
    /\ argument_definitions_' = Append(argument_definitions_, ArgumentDefinition(label, arity))
    /\ UNCHANGED <<name_, pc, loopVars, result, failure, lookup, outsideParser>>

\* ArgumentDefinitionHandle::add_name on the handle of definition i
AddName(i, name) ==
    /\ pc = "build"
    /\ BuildCalls(argument_definitions_, 2) < MaxBuild
    /\ LET r == add_name(argument_definitions_[i], name) IN
       IF r.fatal # ""
       THEN Abort("add_name", r.fatal) /\ UNCHANGED argument_definitions_
       ELSE /\ argument_definitions_' = [argument_definitions_ EXCEPT ![i] = r.def]
            /\ UNCHANGED <<pc, failure>>
    /\ UNCHANGED <<name_, loopVars, result, lookup, outsideParser>>

\* ArgumentDefinitionHandle::set_nargs on the handle of definition i
SetNargs(i, count, atLeastOne) ==
    /\ pc = "build"
    /\ LET r == set_nargs(argument_definitions_[i], count, atLeastOne) IN
       IF r.fatal # ""
       THEN Abort("set_nargs", r.fatal) /\ UNCHANGED argument_definitions_
       ELSE /\ argument_definitions_' = [argument_definitions_ EXCEPT ![i] = r.def]
            /\ UNCHANGED <<pc, failure>>
    /\ UNCHANGED <<name_, loopVars, result, lookup, outsideParser>>

\* parse_args_no_execute_filename(tokens) up to the first test of the loop:
\* metalabels, helper data, help short-circuit, the locals of the loop.
\* A fatal failure ends the process before any token is read.
ParseFrom(tokenLists) ==
    /\ pc = "build"
    /\ LET r == resolve_argument_metalabels(argument_definitions_)
           h == PrepareHelpers(r.defs)
       IN  /\ argument_definitions_' = r.defs
           /\ IF r.fatal # ""
              THEN /\ Abort("parse_args_no_execute_filename", r.fatal)
                   /\ UNCHANGED <<args, positionArgumentDefinitions,
                                  numPositionArgumentsRequired, argumentDefinitionNames,
                                  helpArgumentDefinition, result>>
              ELSE /\ positionArgumentDefinitions' = h.positional
                   /\ numPositionArgumentsRequired' = h.required
                   /\ argumentDefinitionNames' = h.names
                   /\ helpArgumentDefinition' = h.help
                   /\ IF h.fatal # ""
                      THEN Abort("parse_args_no_execute_filename", h.fatal)
                           /\ UNCHANGED <<args, result>>
                      ELSE \E tokens \in tokenLists :
                             /\ args' = tokens
                             /\ IF HelpRequested(r.defs, h.help, tokens)
                                THEN /\ pc' = "returned"
                                     /\ result' = ParseResult(TRUE, FALSE,
                                                      generate_help_text(name_, r.defs))
                                     /\ UNCHANGED failure
                                ELSE /\ pc' = "loop"
                                     /\ UNCHANGED <<result, failure>>
    /\ UNCHANGED <<name_, it, parsingRawArgument, finishedRawArguments,
                   numParsedPositionalArgs, lookup>>

\* a parse_args_no_execute_filename call made by the embedding program
ParseCall == ParseFrom(TokenLists) /\ UNCHANGED outsideParser

\* one iteration of the loop, and the return that follows the break
ParseStep ==
    /\ pc = "loop"
    /\ Len(finishedRawArguments) < MaxFinished
    /\ LET o == Iteration(argument_definitions_, positionArgumentDefinitions,
                          numPositionArgumentsRequired, argumentDefinitionNames, args,
                          Locals(parsingRawArgument, finishedRawArguments,
                                 numParsedPositionalArgs, it))
       IN  /\ parsingRawArgument' = o.L.parsing
           /\ finishedRawArguments' = o.L.finished
           /\ numParsedPositionalArgs' = o.L.numParsed
           /\ it' = o.L.it
           /\ IF o.returns
              THEN pc' = "returned" /\ result' = o.res
              ELSE UNCHANGED <<pc, result>>
    /\ UNCHANGED <<argument_definitions_, name_, args, positionArgumentDefinitions,
                   numPositionArgumentsRequired, argumentDefinitionNames,
                   helpArgumentDefinition, failure, lookup, outsideParser>>

\* ParseResult::get(label) on the returned result
Get(label) ==
    /\ pc = "returned"
    /\ lookup' = [called |-> TRUE, label |-> label,
                  thrown |-> get(result, label).thrown,
                  values |-> get(result, label).values]
    /\ UNCHANGED <<argument_definitions_, name_, pc, loopVars, result, failure, outsideParser>>

\* the embedding program drops the result and goes on with the parser
Release ==
    /\ pc = "returned"
    /\ pc' = "build"
    /\ args' = <<>>
    /\ it' = 1
    /\ positionArgumentDefinitions' = <<>>
    /\ numPositionArgumentsRequired' = 0
    /\ argumentDefinitionNames' = <<>>
    /\ helpArgumentDefinition' = 0
    /\ parsingRawArgument' = EmptyRawArgument
    /\ finishedRawArguments' = <<>>
    /\ numParsedPositionalArgs' = 0
    /\ result' = NoResult
    /\ lookup' = NoLookup
    /\ UNCHANGED <<argument_definitions_, name_, failure, outsideParser>>

Next ==
    \/ \E label \in Labels, arity \in InitialArities : AddArgument(label, arity)
    \/ \E i \in UserDefinitions, name \in Names : AddName(i, name)
    \/ \E i \in UserDefinitions, call \in NargsCalls : SetNargs(i, call[1], call[2])
    \/ ParseCall
    \/ ParseStep
    \/ \E label \in LookupLabels : Get(label)
    \/ Release

Spec == Init /\ [][Next]_vars

----------------------------------------------------------------------------
(* The option-name check applied to the strings of a bounded alphabet *)

\* length of the strings handed to the check
MaxNameLen == 4

Alphabet == {"-", "c", "d"}

RECURSIVE StringsUpTo(_)
StringsUpTo(n) ==
    IF n = 0 THEN {""}
    ELSE StringsUpTo(n - 1) \cup {s \o a : s \in StringsUpTo(n - 1), a \in Alphabet}

TestNames == StringsUpTo(MaxNameLen)

parserVars == <<argument_definitions_, name_, pc, loopVars, result, failure, lookup, entry>>

InitOptionName ==
    /\ name_ \in ProgramNames
    /\ argument_definitions_ = <<define_default_arguments>>
    /\ pc = "build"
    /\ NoParse
    /\ result = NoResult
    /\ failure = NoFailure
    /\ lookup = NoLookup
    /\ checkedName \in TestNames
    /\ nameOutcome = NoOutcome
    /\ ComponentsIdle
    /\ entry = NoEntry

\* check_valid_option_name(checkedName, &_errorText)
CheckName ==
    /\ nameOutcome = NoOutcome
    /\ nameOutcome' = [called |-> "check_valid_option_name",
                       valid |-> check_valid_option_name(checkedName, "").valid,
                       error |-> check_valid_option_name(checkedName, "").error,
                       names |-> <<>>]
    /\ UNCHANGED <<checkedName, parserVars, components>>

\* add_argument(label).add_name(checkedName) on a definition just added
AddCheckedName ==
    /\ nameOutcome = NoOutcome
    /\ \E label \in Labels, arity \in InitialArities :
         LET r == add_name(ArgumentDefinition(label, arity), checkedName) IN
         nameOutcome' = [called |-> "add_name", valid |-> r.fatal = "",
                         error |-> r.fatal, names |-> r.def.names]
    /\ UNCHANGED <<checkedName, parserVars, components>>

NextOptionName == CheckName \/ AddCheckedName

SpecOptionName == InitOptionName /\ [][NextOptionName]_vars

----------------------------------------------------------------------------
(* parse_args: the executable-path heuristic in front of the parse *)

\* what get_current_executable_path() returns
ExecutablePath == "/bin/prog"

\* the working directory std::filesystem::absolute resolves against
WorkingDirectory == "/bin"

PathTokens == {"/bin/prog", "prog", "alice", "--count", "-h", ""}

\* token lists of a parse_args call: one leading token more than TokenLists
GivenTokenLists == UNION {[1..n -> PathTokens] : n \in 0..(MaxArgs + 1)}

\* std::filesystem::absolute(token): a path that is not absolute is put
\* under the working directory; for the empty path the throwing overload
\* raises filesystem_error in libstdc++ and returns it unchanged elsewhere
absolute(token) ==
    IF token = "" THEN {[thrown |-> "std::filesystem::filesystem_error", path |-> ""],
                        [thrown |-> "", path |-> ""]}
    ELSE IF starts_with(token, "/") THEN {[thrown |-> "", path |-> token]}
    ELSE {[thrown |-> "", path |-> WorkingDirectory \o "/" \o token]}

\* std::filesystem::weakly_canonical(path, _errc): the file system either
\* reports an error or gives the path back in canonical form
weakly_canonical(path) == {[errc |-> TRUE, path |-> ""], [errc |-> FALSE, path |-> path]}

\* parse_args(given), the call main makes with its argument vector
ParseArgs(given) ==
    /\ pc = "build"
    /\ entry = NoEntry
    /\ IF given = <<>>
       THEN \* _args.front() of an empty span is undefined behaviour: the build
            \* stops the process, or reads a path that matches nothing
            \/ /\ entry' = [called |-> TRUE, given |-> given, errc |-> FALSE,
                             path |-> "", outcome |-> "crashed"]
               /\ pc' = "aborted"
               /\ UNCHANGED <<argument_definitions_, loopVars, result, failure>>
            \/ /\ entry' = [called |-> TRUE, given |-> given, errc |-> TRUE,
                             path |-> "", outcome |-> "kept"]
               /\ ParseFrom({given})
       ELSE \E a \in absolute(given[1]) :
              IF a.thrown # ""
              THEN /\ entry' = [called |-> TRUE, given |-> given, errc |-> FALSE,
                                path |-> "", outcome |-> a.thrown]
                   /\ UNCHANGED <<argument_definitions_, pc, loopVars, result, failure>>
              ELSE \E c \in weakly_canonical(a.path) :
                     LET _firstArgIsExecutedFilepath ==
                             ~c.errc /\ c.path = ExecutablePath IN
                     /\ entry' = [called |-> TRUE, given |-> given, errc |-> c.errc,
                                  path |-> c.path,
                                  outcome |-> IF _firstArgIsExecutedFilepath
                                              THEN "dropped" ELSE "kept"]
                     /\ ParseFrom({IF _firstArgIsExecutedFilepath
                                   THEN SubSeq(given, 2, Len(given)) ELSE given})
    /\ UNCHANGED <<name_, lookup, nameVars, components>>

InitParseArgs ==
    /\ Constructed
    /\ NoNameCall
    /\ ComponentsIdle
    /\ entry = NoEntry

NextParseArgs ==
    \/ \E given \in GivenTokenLists : ParseArgs(given)
    \/ ParseStep

SpecParseArgs == InitParseArgs /\ [][NextParseArgs]_vars

----------------------------------------------------------------------------
(* message_queue used by one writer thread and one reader thread *)

\* push calls the writer makes
MaxPush == 3

Messages == {"a", "b"}

\* std::list::push_back
push(data, _value) == Append(data, _value)

\* try_next that takes the element queued last
try_next_fromBack(data) ==
    IF data # <<>>
    THEN [value |-> <<data[Len(data)]>>, data |-> SubSeq(data, 1, Len(data) - 1)]
    ELSE [value |-> <<>>, data |-> data]

\* the body of try_next under the lock: [value, data], value <<>> for nullopt
try_next(data) ==
    IF data # <<>>
    THEN [value |-> <<Head(data)>>, data |-> Tail(data)]
    ELSE [value |-> <<>>, data |-> data]

\* empty that overlooks a single queued element
empty_uptoOne(data) == Len(data) <= 1

\* the body of empty under the lock
empty(data) == data = <<>>

outsideQueue == <<parserVars, nameVars, assemblyVars, exclusiveVars, loggingVars>>

InitQueue ==
    /\ Constructed
    /\ NoNameCall
    /\ AssemblyAbsent
    /\ entry = NoEntry
    /\ NoQueue
    /\ ExclusiveAbsent
    /\ LoggingAbsent

\* acquire_lock() at the start of a call: the thread waits while the mutex is held
AcquireLock(thread, call) ==
    /\ calling[thread] = "idle"
    /\ mtx_ = "free"
    /\ call = "push" => Len(pushedValues) < MaxPush
    /\ mtx_' = thread
    /\ calling' = [calling EXCEPT ![thread] = call]
    /\ UNCHANGED <<data_, pushedValues, receivedValues, cleared, emptySeen, nextSeen, outsideQueue>>

\* the lock is released when the call returns
ReleaseLock(thread) ==
    /\ mtx_' = "free"
    /\ calling' = [calling EXCEPT ![thread] = "idle"]

\* push(_value), both overloads
Push(_value) ==
    /\ calling["writer"] = "push" /\ mtx_ = "writer"
    /\ data_' = push(data_, _value)
    /\ pushedValues' = Append(pushedValues, _value)
    /\ emptySeen' = IF emptySeen.answer = "none" THEN emptySeen
                    ELSE [emptySeen EXCEPT !.pushes = 1]
    /\ ReleaseLock("writer")
    /\ UNCHANGED <<receivedValues, cleared, nextSeen, outsideQueue>>

\* clear()
Clear(thread) ==
    /\ calling[thread] = "clear" /\ mtx_ = thread
    /\ data_' = <<>>
    /\ cleared' = TRUE
    /\ emptySeen' = IF emptySeen.answer = "none" THEN emptySeen
                    ELSE [emptySeen EXCEPT !.cleared = TRUE]
    /\ ReleaseLock(thread)
    /\ UNCHANGED <<pushedValues, receivedValues, nextSeen, outsideQueue>>

\* empty()
Empty ==
    /\ calling["reader"] = "empty" /\ mtx_ = "reader"
    /\ emptySeen' = [answer |-> IF empty(data_) THEN "true" ELSE "false",
                     pushes |-> 0, cleared |-> FALSE]
    /\ ReleaseLock("reader")
    /\ UNCHANGED <<data_, pushedValues, receivedValues, cleared, nextSeen, outsideQueue>>

\* try_next()
TryNext ==
    /\ calling["reader"] = "try_next" /\ mtx_ = "reader"
    /\ data_' = try_next(data_).data
    /\ receivedValues' = receivedValues \o try_next(data_).value
    /\ nextSeen' = [called |-> TRUE, value |-> try_next(data_).value,
                    sizeAtLock |-> Len(data_), after |-> emptySeen]
    /\ emptySeen' = NoEmptySeen
    /\ ReleaseLock("reader")
    /\ UNCHANGED <<pushedValues, cleared, outsideQueue>>

NextQueue ==
    \/ AcquireLock("writer", "push")
    \/ \E thread \in QueueThreads : AcquireLock(thread, "clear")
    \/ \E call \in {"empty", "try_next"} : AcquireLock("reader", call)
    \/ \E _value \in Messages : Push(_value)
    \/ \E thread \in QueueThreads : Clear(thread)
    \/ Empty
    \/ TryNext

SpecQueue == InitQueue /\ [][NextQueue]_vars

----------------------------------------------------------------------------
(* exclusive<T> and the locked_ptr objects its get() returns *)

\* unlock that does not ask whether the lock is owned
unlock_unguarded(handle, mtx) ==
    [handle |-> [handle EXCEPT !.ptr_ = "nullptr", !.owns = FALSE, !.releases = @ + 1],
     mtx |-> Unowned]

\* locked_ptr::unlock: [handle, mtx]
unlock(handle, mtx) ==
    IF handle.owns
    THEN [handle |-> [handle EXCEPT !.ptr_ = "nullptr", !.owns = FALSE, !.releases = @ + 1],
          mtx |-> Unowned]
    ELSE [handle |-> handle, mtx |-> mtx]

\* locked_ptr::good
good(handle) == handle.owns

\* the thread is inside a get() that waits for the mutex
Blocked(thread) == \E h \in HandleIds : h[1] = thread /\ handles[h].state = "waiting"

outsideExclusive == <<parserVars, nameVars, assemblyVars, queueVars, loggingVars>>

InitExclusive ==
    /\ Constructed
    /\ NoNameCall
    /\ AssemblyAbsent
    /\ entry = NoEntry
    /\ QueueAbsent
    /\ NoExclusive
    /\ LoggingAbsent

\* exclusive::get() / operator->() up to mtx_.lock() in the constructor of
\* the locked_ptr. Locking a std::mutex the calling thread owns is undefined
\* behaviour: the thread waits for itself for ever, or lock() throws
\* std::system_error (resource_deadlock_would_occur)
GetCall(h) ==
    /\ ~Blocked(h[1])
    /\ handles[h].state = "none"
    /\ IF exclusive_mtx_ # Unowned /\ exclusive_mtx_[1] = h[1]
       THEN \/ handles' = [handles EXCEPT ![h].state = "waiting"] /\ UNCHANGED relockThrown
            \/ relockThrown' = TRUE /\ UNCHANGED handles
       ELSE handles' = [handles EXCEPT ![h].state = "waiting"] /\ UNCHANGED relockThrown
    /\ UNCHANGED <<exclusive_mtx_, outsideExclusive>>

\* mtx_.lock() returns to the waiting constructor: ptr_(&_ptr), lck_(_mtx)
Acquire(h) ==
    /\ handles[h].state = "waiting"
    /\ exclusive_mtx_ = Unowned
    /\ exclusive_mtx_' = h
    /\ handles' = [handles EXCEPT ![h] = [state |-> "live", owns |-> TRUE,
                                          ptr_ |-> "value_", releases |-> 0]]
    /\ UNCHANGED <<relockThrown, outsideExclusive>>

\* locked_ptr::unlock()
Unlock(h) ==
    /\ ~Blocked(h[1])
    /\ handles[h].state = "live"
    /\ handles' = [handles EXCEPT ![h] = unlock(handles[h], exclusive_mtx_).handle]
    /\ exclusive_mtx_' = unlock(handles[h], exclusive_mtx_).mtx
    /\ UNCHANGED <<relockThrown, outsideExclusive>>

\* ~locked_ptr()
Destroy(h) ==
    /\ ~Blocked(h[1])
    /\ handles[h].state = "live"
    /\ handles' = [handles EXCEPT ![h] =
                       [unlock(handles[h], exclusive_mtx_).handle EXCEPT !.state = "destroyed"]]
    /\ exclusive_mtx_' = unlock(handles[h], exclusive_mtx_).mtx
    /\ UNCHANGED <<relockThrown, outsideExclusive>>

\* the storage of a destroyed locked_ptr is used for a new one
Reuse(h) ==
    /\ handles[h].state = "destroyed"
    /\ handles' = [handles EXCEPT ![h] = NoHandle]
    /\ UNCHANGED <<exclusive_mtx_, relockThrown, outsideExclusive>>

NextExclusive ==
    \/ \E h \in HandleIds : GetCall(h)
    \/ \E h \in HandleIds : Acquire(h)
    \/ \E h \in HandleIds : Unlock(h)
    \/ \E h \in HandleIds : Destroy(h)
    \/ \E h \in HandleIds : Reuse(h)

SpecExclusive == InitExclusive /\ [][NextExclusive]_vars

----------------------------------------------------------------------------
(* The logging system and its log file *)

\* messages on the console after which the logging system is no longer followed
MaxLog == 2

LogLevels == {LogLevel.none, LogLevel.fatal, LogLevel.error, LogLevel.warn,
              LogLevel.info, LogLevel.all}

\* has_log_file()
has_log_file(stream) == stream.path # ""

\* std::ofstream::close(): closing a stream with no file sets failbit
close(stream) ==
    IF stream.path # "" THEN [stream EXCEPT !.path = ""]
    ELSE [stream EXCEPT !.failbit = TRUE]

\* the logging system as seen by append_parts_log
LoggingState(stream, out, contents, control) ==
    [file_stream_ |-> stream, console |-> out, fileContents |-> contents,
     loggingPc |-> control, written |-> FALSE]

\* append_parts_log(_params, text): the states it can leave behind.
\* With ASX_DEBUG, ASX_ASSERT(_system.file_stream_) fails on a stream whose
\* failbit is set: the failure is reported through log_fatal_error, which
\* enters append_parts_log again and locks the mutex of stream_ that this
\* thread already holds (undefined behaviour: the thread waits for ever or
\* the lock throws), unless the level filters the report out and exit(1)
\* is reached.
append_parts_log(debug, level, S, text) ==
    IF debug /\ S.file_stream_.failbit
    THEN IF level >= LogLevel.fatal
         THEN {[S EXCEPT !.loggingPc = "hung"], [S EXCEPT !.loggingPc = "terminated"]}
         ELSE {[S EXCEPT !.loggingPc = "exited"]}
    ELSE {[S EXCEPT !.console = Append(@, text),
                    !.fileContents = IF has_log_file(S.file_stream_)
                                     THEN [@ EXCEPT ![S.file_stream_.path] = Append(@, text)]
                                     ELSE @,
                    !.written = TRUE]}

\* log_info, log_error: the level decides whether the message is appended
log(debug, level, S, threshold, text) ==
    IF level >= threshold THEN append_parts_log(debug, level, S, text) ELSE {S}

\* set_log_file(_path): opens tells whether std::ofstream(_path) opened the
\* file; opening truncates it
set_log_file(debug, level, S, path, opens) ==
    IF ~opens
    THEN log(debug, level, S, LogLevel.error,
             "[Error] Failed to create/open logging file at path \"" \o path \o "\"")
    ELSE log(debug, level,
             [S EXCEPT !.file_stream_ = [path |-> path, failbit |-> FALSE],
                       !.fileContents = [@ EXCEPT ![path] = <<>>]],
             LogLevel.info, "[Info] Set logging file path to \"" \o path \o "\"")

outsideLogging == <<parserVars, nameVars, assemblyVars, queueVars, exclusiveVars>>

InitLogging ==
    /\ Constructed
    /\ NoNameCall
    /\ AssemblyAbsent
    /\ entry = NoEntry
    /\ QueueAbsent
    /\ ExclusiveAbsent
    /\ ASX_DEBUG \in BOOLEAN
    /\ NoLogging

Here == LoggingState(file_stream_, console, fileContents, loggingPc)

\* the logging system goes on from state S
Become(S) ==
    /\ file_stream_' = S.file_stream_
    /\ console' = S.console
    /\ fileContents' = S.fileContents
    /\ loggingPc' = S.loggingPc

Following == loggingPc = "running" /\ Len(console) < MaxLog

SetLoggingLevel(level) ==
    /\ Following
    /\ logging_level_' = level
    /\ UNCHANGED <<ASX_DEBUG, file_stream_, console, fileContents, loggingPc,
                   setLogFileCall, outsideLogging>>

SetLogFile(path, opens) ==
    /\ Following
    /\ \E S \in set_log_file(ASX_DEBUG, logging_level_, Here, path, opens) :
         /\ Become(S)
         /\ setLogFileCall' = [called |-> TRUE, path |-> path, opened |-> opens,
                               logged |-> S.written, before |-> file_stream_,
                               after |-> S.file_stream_]
    /\ UNCHANGED <<ASX_DEBUG, logging_level_, outsideLogging>>

CloseLogFile ==
    /\ Following
    /\ file_stream_' = close(file_stream_)
    /\ UNCHANGED <<ASX_DEBUG, logging_level_, console, fileContents, loggingPc,
                   setLogFileCall, outsideLogging>>

\* log_info("ready")
LogInfo ==
    /\ Following
    /\ \E S \in log(ASX_DEBUG, logging_level_, Here, LogLevel.info, "[Info] ready") :
         Become(S)
    /\ UNCHANGED <<ASX_DEBUG, logging_level_, setLogFileCall, outsideLogging>>

NextLogging ==
    \/ \E level \in LogLevels : SetLoggingLevel(level)
    \/ \E path \in LogPaths, opens \in BOOLEAN : SetLogFile(path, opens)
    \/ CloseLogFile
    \/ LogInfo

SpecLogging == InitLogging /\ [][NextLogging]_vars

----------------------------------------------------------------------------
(* ParseResult filled through its setters, then read through its views *)

\* records appended to one ParseResult
MaxRecords == 2

AssemblyValues == {<<>>, <<"alice">>, <<"alice", "3">>}

ViewOperations == {"value_count", "has_value", "value", "operator*", "operator->"}

outsideAssembly == <<parserVars, nameVars, queueVars, exclusiveVars, loggingVars>>

InitAssembly ==
    /\ Constructed
    /\ NoNameCall
    /\ NoAssembly
    /\ entry = NoEntry
    /\ QueueAbsent
    /\ ExclusiveAbsent
    /\ LoggingAbsent

\* what a setter call that gave r leaves behind
Assemble(r, origin) ==
    /\ assembled' = r.res
    /\ origins' = IF r.appended THEN Append(origins, origin) ELSE origins
    /\ assemblyPc' = IF r.fatal = "" THEN "assembling" ELSE "aborted"
    /\ assemblyFailure' = r.fatal
    /\ UNCHANGED <<view, outsideAssembly>>

SetPositionalArgument(values, label) ==
    /\ assemblyPc = "assembling"
    /\ Len(assembled.parsed_arguments) < MaxRecords
    /\ Assemble(set_positional_argument(assembled, values, label), "positional")

SetNamedArgument(values, label) ==
    /\ assemblyPc = "assembling"
    /\ Len(assembled.parsed_arguments) < MaxRecords
    /\ Assemble(set_named_argument(assembled, values, label), "named")

\* the filled result is handed to the caller
ReturnAssembled ==
    /\ assemblyPc = "assembling"
    /\ assemblyPc' = "returned"
    /\ UNCHANGED <<assembled, origins, assemblyFailure, view, outsideAssembly>>

\* get(label) followed by one call on the view it returned
Access(label, operation) ==
    /\ assemblyPc = "returned"
    /\ LET found == get(assembled, label) IN
       IF found.thrown # ""
       THEN view' = [called |-> "get", label |-> label, window |-> <<>>,
                     outcome |-> found.thrown, value |-> ""]
       ELSE \E r \in (CASE operation = "value_count" ->
                             {[outcome |-> "returned",
                               value |-> ToString(value_count(found.values))]}
                        [] operation = "has_value" ->
                             {[outcome |-> "returned",
                               value |-> ToString(has_value(found.values))]}
                        [] OTHER -> value(found.values)) :
              view' = [called |-> operation, label |-> label, window |-> found.values,
                       outcome |-> r.outcome, value |-> r.value]
    /\ UNCHANGED <<assembled, origins, assemblyPc, assemblyFailure, outsideAssembly>>

NextAssembly ==
    \/ \E values \in AssemblyValues, label \in Labels : SetPositionalArgument(values, label)
    \/ \E values \in AssemblyValues, label \in Labels : SetNamedArgument(values, label)
    \/ ReturnAssembled
    \/ \E label \in Labels \ {""}, operation \in ViewOperations : Access(label, operation)

SpecAssembly == InitAssembly /\ [][NextAssembly]_vars

----------------------------------------------------------------------------
(* Vocabulary of the properties *)

ParseOperation == "parse_args_no_execute_filename"

OptionShaped(token) == starts_with(token, "-")

ParseReturned == pc = "returned"
ParseSucceeded == ParseReturned /\ ~result.error /\ ~result.should_exit
ParseAborted == pc = "aborted" /\ failure.operation = ParseOperation

\* the text begins with the prefix
BeginsWith(text, prefix) ==
    Len(text) >= Len(prefix) /\ SubSeq(text, 1, Len(prefix)) = prefix

\* a definition to which no name was ever added: a required positional
\* argument by the data model
Nameless(i) == argument_definitions_[i].names = <<>>

IsFixed(i, n) ==
    /\ argument_definitions_[i].multi_value_mode = "fixed"
    /\ argument_definitions_[i].nvals = n

\* the store holds the built-in help definition and, besides it, only
\* labelled nameless definitions of arity Fixed(1)
OnlyRequiredPositionals ==
    \A i \in UserDefinitions :
        Nameless(i) /\ argument_definitions_[i].label # "" /\ IsFixed(i, 1)

\* no user definition carries one of the reserved help names
HelpNotRedefined ==
    \A i \in UserDefinitions : \A n \in 1..Len(argument_definitions_[i].names) :
        argument_definitions_[i].names[n] \notin {"-h", "--help"}

\* the tokenizer finished a capture for definition i
Captured(i) ==
    \E f \in 1..Len(finishedRawArguments) : finishedRawArguments[f].definition = i

----------------------------------------------------------------------------
(* C1 .. C10 *)

\* C1: when no definition is active and the token is a defined option name
\* whose definition is Fixed(n), n >= 1, followed by exactly n tokens that are
\* not option-shaped, the parse returns error=false, should_exit=false and the
\* option's capture holds exactly those n tokens (as --count 3 in the input
\* alice --count 3).
C1_FixedOptionTakesItsValues ==
    \A i \in DOMAIN argument_definitions_ :
        ( /\ ParseReturned
          /\ args # <<>>
          /\ args[1] \in DOMAIN argumentDefinitionNames
          /\ argumentDefinitionNames[args[1]] = i
          /\ argument_definitions_[i].multi_value_mode = "fixed"
          /\ argument_definitions_[i].nvals >= 1
          /\ Len(args) = argument_definitions_[i].nvals + 1
          /\ \A k \in 2..Len(args) : ~OptionShaped(args[k]) )
        => /\ ~result.error
           /\ ~result.should_exit
           /\ \E f \in 1..Len(finishedRawArguments) :
                  /\ finishedRawArguments[f].definition = i
                  /\ finishedRawArguments[f].values = SubSeq(args, 2, Len(args))

\* C2: a parse of a parser whose definitions are labelled required
\* positionals returns a result, and after any parse that returns error=false
\* and should_exit=false, get(label) yields, for every labelled definition
\* with a finished capture, exactly the captured values in input order.
C2_FinishedCapturesAreReadable ==
    /\ OnlyRequiredPositionals => ~ParseAborted
    /\ ParseSucceeded =>
         \A f \in 1..Len(finishedRawArguments) :
             LET label == argument_definitions_[finishedRawArguments[f].definition].label
             IN  label # "" =>
                   /\ get(result, label).thrown = ""
                   /\ get(result, label).values = finishedRawArguments[f].values

\* C3: a definition to which no name was ever added is a positional, required
\* argument: the validator places it in the positional list and does not
\* reject it as a non-optional named argument.
C3_NamelessDefinitionIsPositional ==
    \A i \in UserDefinitions :
        Nameless(i) =>
          /\ ParseAborted =>
               failure.message # "Named argument \"" \o argument_definitions_[i].label
                                 \o "\" must be optional"
          /\ pc \in {"loop", "returned"} =>
               \E k \in 1..Len(positionArgumentDefinitions) :
                   positionArgumentDefinitions[k] = i

\* C4: with a required positional definition of arity Fixed(1), a parse of
\* the empty token list returns error=true with a message naming the expected
\* count 1 and the actual count 0.
C4_MissingPositionalIsAnError ==
    (OnlyRequiredPositionals /\ UserDefinitions # {}) =>
        /\ ~ParseAborted
        /\ (ParseReturned /\ args = <<>>) =>
             /\ result.error
             /\ \E i \in UserDefinitions :
                    result.message = "Argument \"" \o argument_definitions_[i].metalabel
                                     \o "\" expects 1 values but only 0 were provided"

\* C5: with k positional definitions, all Fixed(1), an input of more than k
\* tokens none of which is option-shaped returns error=true, should_exit=true
\* and the too-many-positional-arguments message for token k+1.
C5_SurplusPositionalIsAnError ==
    OnlyRequiredPositionals =>
        /\ ~ParseAborted
        /\ ( /\ ParseReturned
             /\ Len(args) > Len(argument_definitions_) - 1
             /\ \A k \in 1..Len(args) : ~OptionShaped(args[k]) )
           => /\ result.error
              /\ result.should_exit
              /\ BeginsWith(result.message,
                     "Got too many positional arguments \""
                     \o args[Len(argument_definitions_)] \o "\"")

\* C6: for any definition set that has not redefined the reserved help names,
\* parse(["-h"]) and parse(["--help"]) yield should_exit=true, error=false and
\* a non-empty message.
C6_HelpAlwaysAnswers ==
    HelpNotRedefined =>
        /\ ~ParseAborted
        /\ (pc \in {"loop", "returned"} /\ args \in {<<"-h">>, <<"--help">>}) =>
             /\ ParseReturned
             /\ result.should_exit
             /\ ~result.error
             /\ result.message # ""

\* C7: in a parse that passed the structural validator, a token equal to one
\* of the help definition's names, at any position of the input, makes the
\* parse return (should_exit=true, error=false, message = help text) before any
\* token is tokenized: no user-input error is reported and no capture is begun.
C7_HelpPrecedesTokenizing ==
    ( /\ pc \in {"loop", "returned"}
      /\ \E k \in 1..Len(args) :
           \E n \in 1..Len(argument_definitions_[helpArgumentDefinition].names) :
               args[k] = argument_definitions_[helpArgumentDefinition].names[n] )
    => /\ ParseReturned
       /\ result.should_exit
       /\ ~result.error
       /\ result.message = generate_help_text(name_, argument_definitions_)
       /\ BeginsWith(result.message, "Usage:")
       /\ it = 1
       /\ parsingRawArgument = EmptyRawArgument
       /\ finishedRawArguments = <<>>

\* a help token that follows an invalid option name was answered with help
C7_Witness ==
    /\ ParseReturned
    /\ args = <<"---", "--help">>
    /\ result.should_exit
    /\ ~result.error

\* C8: get(label) for a label that no definition of the parser carries fails
\* with std::out_of_range and leaves the result unchanged.
C8_GetOfUnknownLabelThrows ==
    [][ ( /\ lookup' # lookup
          /\ lookup'.called
          /\ \A i \in DOMAIN argument_definitions_ :
                 argument_definitions_[i].label # lookup'.label )
        => /\ lookup'.thrown = "std::out_of_range"
           /\ lookup'.values = <<>>
           /\ result' = result ]_vars

\* get("other") was called on a returned result and threw
C8_Witness ==
    /\ ParseReturned
    /\ lookup.called
    /\ lookup.label = "other"
    /\ lookup.thrown = "std::out_of_range"

\* C9: after a successful parse, get(label) for the label of an optional
\* definition that was not supplied returns a valid empty view and does not
\* raise.
C9_UnsuppliedOptionalIsEmptyView ==
    ( /\ ParseSucceeded
      /\ lookup.called
      /\ \E i \in DOMAIN argument_definitions_ :
           /\ argument_definitions_[i].label = lookup.label
           /\ argument_definitions_[i].is_optional
           /\ ~Captured(i) )
    => /\ lookup.thrown = ""
       /\ lookup.values = <<>>

\* C10: every ParseResult returned by parse has error=true only with
\* should_exit=true and a non-empty message, and should_exit=false only with
\* error=false and an empty message; every return out of the loop before the
\* end of the input is such an error result; and a fatal failure of parse
\* happens before any token is tokenized.
C10_UserErrorsAreResults ==
    /\ ParseReturned =>
         /\ result.error => (result.should_exit /\ result.message # "")
         /\ ~result.should_exit => (~result.error /\ result.message = "")
         /\ (it <= Len(args) /\ \A k \in 1..Len(args) : args[k] \notin {"-h", "--help"})
              => (result.error /\ result.should_exit /\ result.message # "")
    /\ ParseAborted =>
         (it = 1 /\ parsingRawArgument = EmptyRawArgument /\ finishedRawArguments = <<>>)

\* an unrecognized option was returned as an error result
C10_Witness ==
    /\ ParseReturned
    /\ result.error
    /\ result.should_exit
    /\ BeginsWith(result.message, "Found unrecognized option \"--count\"")

----------------------------------------------------------------------------
(* C11 .. C20 *)

\* the definitions that carry the name
Owners(defs, name) ==
    {i \in DOMAIN defs : \E n \in 1..Len(defs[i].names) : defs[i].names[n] = name}

\* the capture the step left begun: the one it finished, else the one in flight
StartedCapture(finishedBefore, finishedAfter, parsingAfter) ==
    IF Len(finishedAfter) > Len(finishedBefore)
    THEN finishedAfter[Len(finishedAfter)]
    ELSE parsingAfter

\* C11: when no definition is active and the current token starts with '-':
\* a token that fails the name syntax returns a user-facing error; a valid
\* token that is no key of the name map returns the "unrecognized option"
\* error naming the token; only a key of the map activates a definition, and
\* it activates exactly the definition that owns the name.
C11_OptionTokenStartsItsDefinition ==
    [][ ( /\ pc = "loop"
          /\ parsingRawArgument.definition = 0
          /\ it <= Len(args)
          /\ OptionShaped(args[it]) )
        => LET token == args[it]
               syntax == check_valid_option_name(token, "")
               started == StartedCapture(finishedRawArguments, finishedRawArguments',
                                         parsingRawArgument')
           IN  /\ ~syntax.valid =>
                     /\ pc' = "returned"
                     /\ result'.error /\ result'.should_exit
                     /\ result'.message = syntax.error
                     /\ started.definition = 0
               /\ (syntax.valid /\ token \notin DOMAIN argumentDefinitionNames) =>
                     /\ pc' = "returned"
                     /\ result'.error /\ result'.should_exit
                     /\ result'.message = "Found unrecognized option \"" \o token \o "\""
                     /\ started.definition = 0
               /\ (syntax.valid /\ token \in DOMAIN argumentDefinitionNames) =>
                     /\ Owners(argument_definitions_, token) = {started.definition}
                     /\ started.name = token ]_vars

\* the option token --count started the user definition that owns it
C11_Witness ==
    /\ ParseReturned
    /\ args # <<>>
    /\ args[1] = "--count"
    /\ parsingRawArgument.definition \in UserDefinitions
    /\ parsingRawArgument.name = "--count"
    /\ Owners(argument_definitions_, "--count") = {parsingRawArgument.definition}

\* the captures made for definition i, finished or in flight
CapturesOf(i) ==
    {finishedRawArguments[f] : f \in {g \in 1..Len(finishedRawArguments) :
                                          finishedRawArguments[g].definition = i}}
    \cup (IF parsingRawArgument.definition = i THEN {parsingRawArgument} ELSE {})

IsVariableUpTo(i) == argument_definitions_[i].multi_value_mode = "variable"

\* C12: a positional definition of arity VariableUpTo(N) accepts any count of
\* values in 0..N and never captures more than N: a parser whose definitions
\* are labelled nameless ones, one of them VariableUpTo(N), parses without a
\* fatal failure, the definition is in the positional list and none of its
\* captures holds more than N values.
C12_VariablePositionalTakesAtMostN ==
    ( /\ \A i \in UserDefinitions : Nameless(i) /\ argument_definitions_[i].label # ""
      /\ \E i \in UserDefinitions : IsVariableUpTo(i) )
    => /\ ~ParseAborted
       /\ pc \in {"loop", "returned"} =>
            \A i \in UserDefinitions :
                IsVariableUpTo(i) =>
                  /\ \E k \in 1..Len(positionArgumentDefinitions) :
                         positionArgumentDefinitions[k] = i
                  /\ \A c \in CapturesOf(i) :
                         Len(c.values) <= argument_definitions_[i].nvals

HasMarkerName(names) == \E n \in 1..Len(names) : starts_with(names[n], "-")
HasPlainName(names) == \E n \in 1..Len(names) : ~starts_with(names[n], "-")

\* every name is a valid option name, or no name starts with '-'
SameSyntaxClass(names) ==
    \/ \A n \in 1..Len(names) : check_valid_option_name(names[n], "").valid
    \/ \A n \in 1..Len(names) : ~starts_with(names[n], "-")

\* C13: after any sequence of add_name calls on one definition that did not
\* end in a fatal failure, all names of the definition belong to one syntax
\* class; while the parser is being built, add_name of a name that is not a
\* valid marker-prefixed name on a definition holding a marker-prefixed name,
\* and add_name of a marker-prefixed name on a definition holding a name
\* without the marker, is a fatal failure that leaves the names as they were.
C13_NamesShareOneSyntaxClass ==
    \A i \in DOMAIN argument_definitions_ :
        LET names == argument_definitions_[i].names IN
        /\ SameSyntaxClass(names)
        /\ pc = "build" =>
             \A name \in Names :
                 ( \/ HasMarkerName(names) /\ ~check_valid_option_name(name, "").valid
                   \/ HasPlainName(names) /\ starts_with(name, "-") )
                 => /\ add_name(argument_definitions_[i], name).fatal # ""
                    /\ add_name(argument_definitions_[i], name).def
                         = argument_definitions_[i]

\* --count was refused on a definition that already held the name foo
C13_Witness ==
    /\ pc = "aborted"
    /\ failure.operation = "add_name"
    /\ failure.message = InvalidOptionName("foo", " existing name \"foo\" isn't valid -",
                                           " must start with '-' or '--'")
    /\ \E i \in UserDefinitions : argument_definitions_[i].names = <<"foo">>

\* the '-' characters the string begins with
LeadingMarkers(s) ==
    Cardinality({k \in 1..Len(s) : \A j \in 1..k : SubSeq(s, j, j) = "-"})

\* the name syntax as the rule states it
ValidByRule(s) ==
    /\ LeadingMarkers(s) >= 1
    /\ LeadingMarkers(s) < Len(s)
    /\ LeadingMarkers(s) <= 2
    /\ LeadingMarkers(s) = 1 => Len(s) = 2

\* C14: check_valid_option_name(name) returns true exactly when name starts
\* with '-', holds a character that is not '-' after the leading markers, has
\* at most two leading '-', and, with exactly one leading '-', is that marker
\* followed by exactly one character; it returns false for every other string,
\* and add_name of a marker-prefixed string that fails the test is a fatal
\* failure that adds nothing.
C14_OptionNameSyntax ==
    /\ nameOutcome.called = "check_valid_option_name" =>
         /\ nameOutcome.valid = ValidByRule(checkedName)
         /\ nameOutcome.valid = (nameOutcome.error = "")
    /\ (nameOutcome.called = "add_name" /\ starts_with(checkedName, "-")) =>
         /\ nameOutcome.valid = ValidByRule(checkedName)
         /\ ~nameOutcome.valid => nameOutcome.names = <<>>
         /\ nameOutcome.valid => nameOutcome.names = <<checkedName>>

\* the name -cd of one marker and two characters was refused
C14_Witness ==
    /\ nameOutcome.called = "check_valid_option_name"
    /\ checkedName = "-cd"
    /\ ~nameOutcome.valid

\* C15: every parser holds, from construction, a help definition with the
\* names -h and --help (optional, named, arity Fixed(0)); a user definition
\* that carries -h or --help, at any position of its name list, makes every
\* later parse call end in a fatal failure rather than return a result.
C15_HelpNamesAreReserved ==
    /\ argument_definitions_[1].label = "help"
    /\ argument_definitions_[1].names = <<"-h", "--help">>
    /\ argument_definitions_[1].is_optional
    /\ ~argument_definitions_[1].is_positional
    /\ IsFixed(1, 0)
    /\ ~HelpNotRedefined => pc \in {"build", "aborted"}

\* a user definition holding -h after another name ended the parse call
C15_Witness ==
    /\ ParseAborted
    /\ \E i \in UserDefinitions : argument_definitions_[i].names = <<"--count", "-h">>
    /\ failure.message = "Multiple arguments with the name \"-h\""

\* the two messages of the validator's optionality rules
IsOptionalityFailure(message) ==
    \/ BeginsWith(message, "Positional argument \"")
    \/ BeginsWith(message, "Named argument \"")

\* C16: the structural validator raises a fatal failure, before any token is
\* examined, whenever a required positional definition follows an optional
\* positional one and whenever a named definition is not optional; a
\* definition set with neither defect (every definition that has names is
\* optional, the nameless ones are required positionals) does not raise these
\* failures.
C16_ValidatorRaisesExactlyTheDefects ==
    /\ pc \in {"loop", "returned"} =>
         /\ \A k \in 1..Len(positionArgumentDefinitions) :
              \A j \in 1..(k - 1) :
                argument_definitions_[positionArgumentDefinitions[j]].is_optional
                  => argument_definitions_[positionArgumentDefinitions[k]].is_optional
         /\ \A i \in DOMAIN argument_definitions_ :
              ~Nameless(i) => argument_definitions_[i].is_optional
    /\ ( /\ ParseAborted
         /\ \A i \in DOMAIN argument_definitions_ :
                Nameless(i) \/ argument_definitions_[i].is_optional )
       => ~IsOptionalityFailure(failure.message)

\* the names that occur more than once in the store
Colliding(defs) ==
    LET places == UNION {{<<i, n>> : n \in 1..Len(defs[i].names)} : i \in DOMAIN defs}
    IN  {defs[p[1]].names[p[2]] : p \in
            {q \in places : \E o \in places :
                 o # q /\ defs[o[1]].names[o[2]] = defs[q[1]].names[q[2]]}}

AllNames(defs) ==
    UNION {{defs[i].names[n] : n \in 1..Len(defs[i].names)} : i \in DOMAIN defs}

CollisionMessage(name) == "Multiple arguments with the name \"" \o name \o "\""

\* the name map of a parse that reached tokenizing maps every name of the
\* store to the one definition that carries it
NameMapIsTheOwnerFunction ==
    pc \in {"loop", "returned"} =>
        /\ DOMAIN argumentDefinitionNames = AllNames(argument_definitions_)
        /\ \A name \in DOMAIN argumentDefinitionNames :
               Owners(argument_definitions_, name) = {argumentDefinitionNames[name]}

\* C17 as stated: if the same name occurs on two definitions, or twice on one,
\* the parse call raises a fatal failure naming the colliding name, and in
\* every parse that reaches tokenizing the name map maps each name to the one
\* definition carrying it.
C17_CollisionIsReportedByName ==
    /\ Colliding(argument_definitions_) # {} => pc \notin {"loop", "returned"}
    /\ (Colliding(argument_definitions_) # {} /\ ParseAborted) =>
           \E name \in Colliding(argument_definitions_) :
               failure.message = CollisionMessage(name)
    /\ NameMapIsTheOwnerFunction

\* every definition is optional and no user definition begins with a help name
CollisionIsTheOnlyDefect ==
    /\ \A i \in DOMAIN argument_definitions_ : argument_definitions_[i].is_optional
    /\ \A i \in UserDefinitions : argument_definitions_[i].names[1] \notin {"-h", "--help"}

\* C17 amended: a store in which a name occurs twice never reaches tokenizing,
\* every parse call on it ends in a fatal failure; the failure names a
\* colliding name when the collision is the first defect the validator meets
\* (every definition is optional and no user definition has a help name as its
\* first name); and in every parse that reaches tokenizing the name map maps
\* each name to the one definition carrying it.
C17_CollidingNamesNeverReachTokenizing ==
    /\ Colliding(argument_definitions_) # {} => pc \notin {"loop", "returned"}
    /\ (Colliding(argument_definitions_) # {} /\ ParseAborted /\ CollisionIsTheOnlyDefect) =>
           \E name \in Colliding(argument_definitions_) :
               failure.message = CollisionMessage(name)
    /\ (ParseAborted /\ BeginsWith(failure.message, "Multiple arguments with the name")) =>
           \E name \in Colliding(argument_definitions_) :
               failure.message = CollisionMessage(name)
    /\ NameMapIsTheOwnerFunction

\* --count added twice to one definition ended the parse call
C17_Witness ==
    /\ ParseAborted
    /\ failure.message = CollisionMessage("--count")
    /\ \E i \in UserDefinitions : argument_definitions_[i].names = <<"--count", "--count">>

\* C18: two definitions that carry the same non-empty label are rejected by
\* the structural validator at parse time: a store with such a pair never
\* passes validation.
C18_DuplicateLabelsAreRejected ==
    (\E i, j \in DOMAIN argument_definitions_ :
        /\ i # j
        /\ argument_definitions_[i].label # ""
        /\ argument_definitions_[i].label = argument_definitions_[j].label)
    => pc \notin {"loop", "returned"}

\* the names joined with '|', built from the last name backwards
RECURSIVE Joined(_)
Joined(names) ==
    IF names = <<>> THEN ""
    ELSE IF Len(names) = 1 THEN names[1]
    ELSE Joined(SubSeq(names, 1, Len(names) - 1)) \o "|" \o names[Len(names)]

\* the nameless definitions, positionals by the data model, that precede i
PositionalsBefore(defs, i) == Cardinality({j \in 1..(i - 1) : defs[j].names = <<>>})

\* C19: resolve_argument_metalabels gives every definition whose metalabel is
\* empty the first available of: its names joined in order with '|'; its
\* label; for an unlabeled positional, "arg<N>" with N the number of
\* positional definitions that precede it; a definition whose metalabel is not
\* empty is left unchanged.
C19_MetalabelFallbacks ==
    pc = "build" =>
        LET defs == argument_definitions_
            r == resolve_argument_metalabels(defs)
        IN  /\ r.fatal = ""
            /\ Len(r.defs) = Len(defs)
            /\ \A i \in DOMAIN defs :
                 /\ r.defs[i] = [defs[i] EXCEPT !.metalabel = r.defs[i].metalabel]
                 /\ r.defs[i].metalabel =
                      IF defs[i].metalabel # "" THEN defs[i].metalabel
                      ELSE IF defs[i].names # <<>> THEN Joined(defs[i].names)
                      ELSE IF defs[i].label # "" THEN defs[i].label
                      ELSE "arg" \o ToString(PositionalsBefore(defs, i))

\* C20: the metalabel resolver is idempotent: for every definition store a
\* second run of resolve_argument_metalabels, as made by a second parse call
\* with no builder call in between, leaves every definition's metalabel and
\* every other field as the first run left it.
C20_ResolverIsIdempotent ==
    LET first == resolve_argument_metalabels(argument_definitions_) IN
    /\ first.fatal = "" =>
         resolve_argument_metalabels(first.defs) = first
    /\ pc \in {"loop", "returned"} =>
         resolve_argument_metalabels(argument_definitions_)
           = [fatal |-> "", defs |-> argument_definitions_]

\* a parse call ran the resolver again over a definition resolved by an
\* earlier parse call, and left its metalabel as it was
C20_Witness ==
    /\ pc \in {"loop", "returned"}
    /\ \E i \in UserDefinitions :
         /\ argument_definitions_[i].names = <<"--count", "-c">>
         /\ argument_definitions_[i].metalabel = "--count"

----------------------------------------------------------------------------
(* C21 .. C30 *)

\* the wrapped metalabels of the store, built from the last definition
\* backwards
RECURSIVE WrappedMetalabels(_)
WrappedMetalabels(defs) ==
    IF defs = <<>> THEN ""
    ELSE LET d == defs[Len(defs)] IN
         WrappedMetalabels(SubSeq(defs, 1, Len(defs) - 1))
         \o (IF d.is_optional THEN "[" ELSE "<")
         \o d.metalabel
         \o (IF d.is_optional THEN "]" ELSE ">")

\* C21: the generated help text is the program name followed by one wrapped
\* metalabel per definition, for every definition of the store including the
\* built-in help definition, in definition order: "[metalabel]" when the
\* definition is optional and "<metalabel>" when it is required.
C21_HelpTextListsEveryDefinition ==
    (ParseReturned /\ result.should_exit /\ ~result.error) =>
        /\ result.message = "Usage:\n\t" \o name_ \o " "
                            \o WrappedMetalabels(argument_definitions_)
        /\ BeginsWith(result.message, "Usage:\n\t" \o name_ \o " [-h|--help]")

\* the help text of a parser with one user definition of two names
C21_Witness ==
    /\ ParseReturned
    /\ result.should_exit
    /\ ~result.error
    /\ result.message = "Usage:\n\tprog [-h|--help][--count|-c]"

\* some record of the result under assembly was appended by set_named_argument
HasNamedRecord == \E i \in DOMAIN origins : origins[i] = "named"

\* C22: in every ParseResult whose setter calls all returned, the records
\* appended by set_positional_argument are exactly the first
\* num_positional_args_ records and the records appended by
\* set_named_argument are the rest; while there is a named record, every
\* set_positional_argument call is a fatal check failure.
C22_PositionalRecordsPrecedeNamed ==
    /\ assemblyPc \in {"assembling", "returned"} =>
          /\ Len(origins) = Len(assembled.parsed_arguments)
          /\ \A i \in DOMAIN origins :
                origins[i] = "positional" <=> i <= assembled.num_positional_args
    /\ (assemblyPc = "assembling" /\ HasNamedRecord) =>
          \A values \in AssemblyValues, label \in Labels :
             set_positional_argument(assembled, values, label).fatal =
                 ASX_CHECK_text("_numPositionalArgs == _parsedArgumentStorage.size()")

C22_Witness ==
    /\ assemblyPc = "returned"
    /\ origins = <<"positional", "named">>
    /\ assembled.num_positional_args = 1

\* C23: value(), operator* and operator-> of a view over an empty window
\* fail with std::out_of_range and give the first value of a window that is
\* not empty; value_count() and has_value() always return.
C23_FirstValueAccessOfEmptyWindowThrows ==
    /\ view.called \in {"value", "operator*", "operator->"} =>
          IF view.window = <<>>
          THEN view.outcome = "std::out_of_range"
          ELSE view.outcome = "returned" /\ view.value = view.window[1]
    /\ view.called \in {"value_count", "has_value"} => view.outcome = "returned"

\* the token list parse_args(entry.given) hands on by the rule of the heuristic
ExpectedTokens ==
    IF entry.given # <<>> /\ ~entry.errc /\ entry.path = ExecutablePath
    THEN Tail(entry.given)
    ELSE entry.given

\* C24: parse_args(args) parses tail(args) when the first token resolves
\* without error to the current executable path and parses args in every
\* other case, an empty token list included; at most the first token is
\* dropped.
C24_ParseArgsDropsOnlyTheExecutablePath ==
    entry.called =>
        /\ entry.outcome \in {"dropped", "kept"}
        /\ pc \in {"loop", "returned"}
        /\ args = ExpectedTokens
        /\ Len(entry.given) - Len(args) \in {0, 1}

\* C25: every iteration of the tokenizing loop consumes a token, assigns a
\* new positional slot, or returns, so that the parse of a finite token list
\* returns after a number of iterations bounded by tokens and definitions.
C25_EveryIterationMakesProgress ==
    [][pc = "loop" =>
          \/ it' > it
          \/ numParsedPositionalArgs' > numParsedPositionalArgs
          \/ pc' = "returned"]_vars

\* the locals of the loop with a capture open for definition i under name
\* and values already captured
ActiveCapture(i, name, values) ==
    Locals([EmptyRawArgument EXCEPT !.definition = i, !.name = name, !.values = values],
           finishedRawArguments, numParsedPositionalArgs, it)

NextFollowedEmpty == nextSeen.called /\ nextSeen.after.answer # "none"

\* C26: with one writer and one reader, and no clear(), the values returned
\* by try_next are at every moment a prefix of the values pushed, the rest
\* being still queued in order; try_next returns nullopt only if the queue
\* held no element when it took the lock.
C26_QueueIsFifo ==
    /\ ~cleared =>
          /\ Len(receivedValues) <= Len(pushedValues)
          /\ receivedValues = SubSeq(pushedValues, 1, Len(receivedValues))
          /\ pushedValues = receivedValues \o data_
    /\ (nextSeen.called /\ nextSeen.value = <<>>) => nextSeen.sizeAtLock = 0

C26_Witness ==
    /\ ~cleared
    /\ pushedValues = <<"a", "b", "a">>
    /\ receivedValues = <<"a", "b">>

GoodHandles == {h \in HandleIds : handles[h].state = "live" /\ good(handles[h])}

\* C28: at most one locked_ptr of an exclusive object is good at any time and
\* it is the one that owns the mutex; a get() issued meanwhile waits; a
\* locked_ptr that was unlocked has good() = false and get() = nullptr, and
\* no locked_ptr unlocks the mutex more than once, whatever unlock() calls
\* and the destructor follow.
C28_AtMostOneGoodLockedPtr ==
    /\ Cardinality(GoodHandles) <= 1
    /\ \A h \in HandleIds :
          /\ (handles[h].state = "live" /\ good(handles[h])) <=> exclusive_mtx_ = h
          /\ handles[h].state = "waiting" => ~good(handles[h])
          /\ good(handles[h]) <=> handles[h].ptr_ = "value_"
          /\ handles[h].releases <= 1
          /\ handles[h].state = "destroyed" =>
                 ~good(handles[h]) /\ handles[h].releases = 1

C28_Witness ==
    /\ exclusive_mtx_ = <<"t2", 1>>
    /\ handles[<<"t1", 1>>].state = "live"
    /\ handles[<<"t1", 1>>].releases = 1
    /\ handles[<<"t1", 2>>].state = "waiting"

\* C29: a set_log_file call that fails to open its path logs an error and
\* leaves the destination as it was: the stream of the log file is the same
\* after the call as before it, and so is what has_log_file() returns.
C29_FailedSetLogFileKeepsTheDestination ==
    (setLogFileCall.called /\ ~setLogFileCall.opened) =>
        /\ loggingPc = "running"
        /\ setLogFileCall.logged
        /\ setLogFileCall.after = setLogFileCall.before
        /\ has_log_file(setLogFileCall.after) = has_log_file(setLogFileCall.before)

----------------------------------------------------------------------------
(* C31 .. C40 *)

\* the locals of the loop in the current state
CurrentLocals ==
    Locals(parsingRawArgument, finishedRawArguments, numParsedPositionalArgs, it)

\* the outcome of the iteration that starts with locals L
IterationFrom(L) ==
    Iteration(argument_definitions_, positionArgumentDefinitions,
              numPositionArgumentsRequired, argumentDefinitionNames, args, L)

\* values an open capture may hold when a token is met
CaptureValues == {<<>>, <<"3">>}

\* the values the loop can have appended to a capture of def: a Fixed capture
\* takes a value only while it holds fewer than nvals
Appendable(def) ==
    { values \in CaptureValues :
        def.multi_value_mode = "fixed" => Len(values) <= def.nvals }

\* the captures that may be open for a named definition
OpenCaptures ==
    UNION { { ActiveCapture(i, argument_definitions_[i].names[n], values) :
                n \in 1..Len(argument_definitions_[i].names),
                values \in Appendable(argument_definitions_[i]) } :
            i \in DOMAIN argument_definitions_ }

\* the iteration with outcome o closed the capture open in L: pushed once,
\* active state cleared, iterator where it was
ClosedOnce(L, opened, o) ==
    /\ o.L.finished = Append(L.finished, opened)
    /\ o.L.parsing = clear(opened)
    /\ o.L.it = L.it

\* the token under the iterator is next handled by the branch that starts a
\* definition
RestartsAt(L) ==
    /\ L.parsing.definition = 0
    /\ L.it <= Len(args)
    /\ LET s == StartArgument(argument_definitions_, positionArgumentDefinitions,
                              numPositionArgumentsRequired, argumentDefinitionNames,
                              args[L.it], L)
       IN  \/ s.returns /\ s.res.error
           \/ /\ s.L.parsing.name = args[L.it]
              /\ s.L.parsing.definition = argumentDefinitionNames[args[L.it]]
              /\ s.L.parsing.values = <<>>

\* C31: closing a definition pushes its capture (the name and the values
\* accumulated for it) onto the finished list exactly once, clears the active
\* state and consumes no token: the token that triggered the closure is
\* handled next as the start of a definition, neither skipped nor stored as a
\* value of the closed definition.
C31_ClosingConsumesNoToken ==
    (pc = "loop" /\ it <= Len(args)) =>
        /\ LET o == IterationFrom(CurrentLocals)
               s == StartArgument(argument_definitions_, positionArgumentDefinitions,
                                  numPositionArgumentsRequired, argumentDefinitionNames,
                                  args[it], CurrentLocals)
           IN  (~o.returns /\ o.L.finished # finishedRawArguments) =>
                   /\ ClosedOnce(CurrentLocals, s.L.parsing, o)
                   /\ RestartsAt(o.L)
        /\ \A L \in OpenCaptures :
              LET o == IterationFrom(L) IN
              (~o.returns /\ o.L.parsing.definition = 0) =>
                  /\ ClosedOnce(L, L.parsing, o)
                  /\ RestartsAt(o.L)

\* a capture was closed by the token under the iterator, which is still to
\* be handled
C31_Witness ==
    /\ pc = "loop"
    /\ it <= Len(args)
    /\ finishedRawArguments # <<>>
    /\ parsingRawArgument.definition = 0
    /\ finishedRawArguments[Len(finishedRawArguments)].name = args[it]

\* the tokens that are names of definitions of the store: option-shaped and
\* valid option names
OptionNameTokens == DOMAIN argumentDefinitionNames

IsCountError(res, name, n, k) ==
    /\ res.error
    /\ res.should_exit
    /\ res.message = "Argument \"" \o name \o "\" expects " \o ToString(n)
                     \o " values but only " \o ToString(k) \o " were provided"

NargsCounts == {0 - 256, 0 - 255, 0 - 2, 0 - 1, 0, 1, 2, 255, 256}

\* minimum counts of an "at least one" definition
MinimumCounts == 0..2

\* set_nargs(count, atLeastOne) gives the arity of its documentation, or is a
\* fatal setup error
SetNargsByTheDocumentation(def, count, atLeastOne) ==
    LET r == set_nargs(def, count, atLeastOne) IN
    IF count <= 0 - 256 \/ count >= 256 \/ (atLeastOne /\ count < 0)
    THEN r.fatal # ""
    ELSE /\ r.fatal = ""
         /\ r.def.multi_value_mode =
               (IF atLeastOne THEN "one_or_more"
                ELSE IF count >= 0 THEN "fixed" ELSE "variable")
         /\ r.def.nvals = (IF count >= 0 THEN count ELSE 0 - count)
         /\ [r.def EXCEPT !.multi_value_mode = "", !.nvals = 0]
               = [def EXCEPT !.multi_value_mode = "", !.nvals = 0]

CapturedCounts == {1, 2, 255, 256, 257, 512}

NamedCaptures ==
    { f \in 1..Len(finishedRawArguments) :
        argument_definitions_[finishedRawArguments[f].definition].names # <<>> }

\* the option-name tokens of the input up to the one under the iterator
OptionNameTokensSoFar ==
    { j \in 1..Len(args) : j <= it /\ args[j] \in OptionNameTokens }

\* C36: in every state of the loop the finished captures of named
\* definitions are at most as many as the option-name tokens of the input
\* handled so far: one occurrence of an option name gives at most one
\* finished capture, also for arity Fixed(0) and VariableUpTo.
C36_OneCapturePerOptionToken ==
    pc = "loop" => Cardinality(NamedCaptures) <= Cardinality(OptionNameTokensSoFar)

\* the sum of the counts of the first n records
RECURSIVE CountsBefore(_, _)
CountsBefore(records, n) ==
    IF n = 0 THEN 0 ELSE CountsBefore(records, n - 1) + records[n].count

\* the records of res tile its value list and the label map leads each label
\* to a record of its own
Tiles(res) ==
    /\ \A i \in DOMAIN res.parsed_arguments :
          res.parsed_arguments[i].offset = CountsBefore(res.parsed_arguments, i - 1)
    /\ CountsBefore(res.parsed_arguments, Len(res.parsed_arguments)) = Len(res.parsed_values)
    /\ \A l \in DOMAIN res.labelled_argument_positions :
          /\ l # ""
          /\ res.labelled_argument_positions[l] + 1 \in DOMAIN res.parsed_arguments
          /\ \A m \in DOMAIN res.labelled_argument_positions :
                res.labelled_argument_positions[m] = res.labelled_argument_positions[l]
                    => m = l

\* the setter call that gave r from res registered label for values and left
\* every label registered before it with the values it had
Registers(res, r, values, label) ==
    r.fatal = "" =>
        /\ Tiles(r.res)
        /\ Len(r.res.parsed_arguments) = Len(res.parsed_arguments) + 1
        /\ label # "" =>
              /\ get(r.res, label).thrown = ""
              /\ get(r.res, label).values = values
              /\ r.res.labelled_argument_positions[label] = Len(res.parsed_arguments)
        /\ \A l \in DOMAIN res.labelled_argument_positions :
              get(r.res, l) = get(res, l)

\* C37: after any sequence of set_positional_argument and set_named_argument
\* calls that did not abort, the records tile the value list (each offset is
\* the sum of the counts before it, the counts sum to the length of the value
\* list), each labelled record is reached through the label map at its own
\* index, and get(label) returns the values passed to the call that
\* registered the label, in order.
C37_RecordsTileTheValueList ==
    assemblyPc \in {"assembling", "returned"} =>
        /\ Tiles(assembled)
        /\ \A l \in DOMAIN assembled.labelled_argument_positions :
              get(assembled, l).thrown = ""
        /\ \A values \in AssemblyValues, label \in Labels :
              /\ Registers(assembled, set_positional_argument(assembled, values, label),
                           values, label)
              /\ Registers(assembled, set_named_argument(assembled, values, label),
                           values, label)

\* two labelled records, the second behind the two values of the first
C37_Witness ==
    /\ assemblyPc = "returned"
    /\ assembled.parsed_arguments = <<[offset |-> 0, count |-> 2], [offset |-> 2, count |-> 1]>>
    /\ DOMAIN assembled.labelled_argument_positions = {"count", "help"}
    /\ get(assembled, "help").values = <<"alice">>

\* the loop run from locals L to its return; the run is followed for
\* MaxFinished captures
RECURSIVE RunLoop(_, _, _, _)
RunLoop(defs, h, tokens, L) ==
    IF Len(L.finished) >= MaxFinished
    THEN [kind |-> "looping", res |-> NoResult, defs |-> defs]
    ELSE LET o == Iteration(defs, h.positional, h.required, h.names, tokens, L) IN
         IF o.returns THEN [kind |-> "returned", res |-> o.res, defs |-> defs]
         ELSE RunLoop(defs, h, tokens, o.L)

\* parse_args_no_execute_filename(tokens) on a parser that holds defs, from
\* its first statement: what the call returns and the store it leaves
ParseOutcome(name, defs, tokens) ==
    LET r == resolve_argument_metalabels(defs)
        h == PrepareHelpers(r.defs)
    IN  IF r.fatal # "" THEN [kind |-> "aborted", res |-> NoResult, defs |-> r.defs]
        ELSE IF h.fatal # "" THEN [kind |-> "aborted", res |-> NoResult, defs |-> r.defs]
        ELSE IF HelpRequested(r.defs, h.help, tokens)
        THEN [kind |-> "returned", defs |-> r.defs,
              res |-> ParseResult(TRUE, FALSE, generate_help_text(name, r.defs))]
        ELSE RunLoop(r.defs, h, tokens,
                     Locals(EmptyRawArgument, <<>>, 0, 1))

\* C38: parsing is deterministic and independent of earlier parses: a second
\* call with the same token list and no builder call in between returns a
\* result equal in should_exit, error, message and parsed values; the result
\* is a function of the definition store and the token list, and a parse
\* leaves nothing behind but resolved metalabels.
C38_ParseIsAFunctionOfStoreAndTokens ==
    pc = "returned" =>
        LET again == ParseOutcome(name_, argument_definitions_, args) IN
        /\ again.kind = "returned"
        /\ again.res = result
        /\ again.defs = argument_definitions_

\* a parse returned the help text on a parser that had parsed before: a name
\* added after the earlier parse is in the store, the metalabel is the one the
\* earlier parse resolved
C38_Witness ==
    /\ pc = "returned"
    /\ result.should_exit
    /\ \E i \in UserDefinitions :
          /\ Len(argument_definitions_[i].names) = 2
          /\ argument_definitions_[i].metalabel = argument_definitions_[i].names[1]

\* the wrapped joins of the names the definitions hold, built from the last
\* definition backwards
RECURSIVE WrappedNames(_)
WrappedNames(defs) ==
    IF defs = <<>> THEN ""
    ELSE LET d == defs[Len(defs)] IN
         WrappedNames(SubSeq(defs, 1, Len(defs) - 1))
         \o (IF d.is_optional THEN "[" ELSE "<")
         \o (IF d.names # <<>> THEN Joined(d.names) ELSE d.metalabel)
         \o (IF d.is_optional THEN "]" ELSE ">")

\* C39: for every sequence of builder calls and parse calls on one parser,
\* the help text a parse call produces shows, for each definition that has
\* names, the join with '|' of the names the definition holds at the time of
\* that call; after parse, add_name on an existing definition and parse with a
\* help token, the usage text includes the added name.
C39_HelpTextShowsTheCurrentNames ==
    (ParseReturned /\ result.should_exit /\ ~result.error) =>
        result.message = "Usage:\n\t" \o name_ \o " " \o WrappedNames(argument_definitions_)

\* the captures of Fixed(n) definitions in locals L are within their count:
\* the active one holds at most n values, the finished ones exactly n
WithinArity(defs, L) ==
    /\ (L.parsing.definition # 0
          /\ defs[L.parsing.definition].multi_value_mode = "fixed")
       => Len(L.parsing.values) <= defs[L.parsing.definition].nvals
    /\ \A f \in DOMAIN L.finished :
          defs[L.finished[f].definition].multi_value_mode = "fixed"
             => Len(L.finished[f].values) = defs[L.finished[f].definition].nvals

\* lists of positional definitions in declaration order
PositionalSlots ==
    {<<>>} \cup {<<i>> : i \in DOMAIN argument_definitions_}
           \cup {p \in (DOMAIN argument_definitions_) \X (DOMAIN argument_definitions_) :
                    p[1] < p[2]}

\* C40: in every state of the loop the active capture of a Fixed(n)
\* definition holds at most n values and every finished capture of a Fixed(n)
\* definition holds exactly n; positional definitions are activated in
\* declaration order, each at most once in a parse, and the count of assigned
\* positional slots never exceeds the number of positional definitions.
C40_CapturesStayWithinTheirArity ==
    pc \in {"loop", "returned"} =>
        /\ WithinArity(argument_definitions_, CurrentLocals)
        /\ numParsedPositionalArgs <= Len(positionArgumentDefinitions)
        /\ \A a, b \in DOMAIN positionArgumentDefinitions :
              a < b => positionArgumentDefinitions[a] < positionArgumentDefinitions[b]
        /\ pc = "loop" =>
              /\ \A L \in OpenCaptures, arg \in Tokens :
                    /\ WithinArity(argument_definitions_,
                                   WriteValue(argument_definitions_, arg, L).L)
                    /\ WithinArity(argument_definitions_,
                                   EndOfArgs(argument_definitions_, L).L)
              /\ \A slots \in PositionalSlots, arg \in Tokens :
                    \A assigned \in 0..Len(slots) :
                       LET s == StartArgument(argument_definitions_, slots, Len(slots),
                                              argumentDefinitionNames, arg,
                                              Locals(EmptyRawArgument, finishedRawArguments,
                                                     assigned, it))
                       IN  ~OptionShaped(arg) =>
                              IF assigned = Len(slots)
                              THEN s.returns /\ s.res.error /\ s.L.numParsed = assigned
                              ELSE /\ ~s.returns
                                   /\ s.L.numParsed = assigned + 1
                                   /\ s.L.parsing.definition = slots[assigned + 1]
                                   /\ s.L.parsing.values = <<>>

\* the loop holds a finished capture of a Fixed definition
C40_Witness ==
    /\ pc = "loop"
    /\ \E f \in DOMAIN finishedRawArguments :
          LET def == argument_definitions_[finishedRawArguments[f].definition] IN
          /\ def.multi_value_mode = "fixed"
          /\ Len(finishedRawArguments[f].values) = def.nvals
    /\ numParsedPositionalArgs = Len(positionArgumentDefinitions)

====
